---------------------------- MODULE Spec2Model ----------------------------
(***************************************************************************)
(* Vibly: the upload orchestrator of the backend (RecordingsService over   *)
(* the database and the object storage) and the recording coordinator of   *)
(* the extension (service worker, offscreen document, popup).              *)
(*                                                                         *)
(* Time is counted in minutes.  Sizes are counted in MiB.                  *)
(***************************************************************************)
EXTENDS Integers, Sequences, FiniteSets, TLC

(***************************************************************************)
(* Bounds of the model.                                                    *)
(***************************************************************************)
\* upload sessions that initRecording may open during a run: under ServerSpec
\* and under QuotaSpec
MaxNew == 1
QuotaNew == 2
\* the clock advances ClockStep minutes at a time, up to MaxTime
ClockStep == 15
MaxTime == 30
\* part numbers that a client PUTs to storage during a run: under ServerSpec
\* and under QuotaSpec
MaxPut == 2
QuotaPut == 1

(***************************************************************************)
(* Program constants.                                                      *)
(***************************************************************************)
FREE_TIER_MAX_RECORDINGS == 5
FREE_TIER_RETENTION_DAYS == 30
\* 15 * 60 * 1000 ms
SESSION_TTL == 15
\* 500 * 1024 * 1024 bytes and 5 * 1024 * 1024 bytes
MAX_FILE_SIZE == 500
PART_SIZE == 5
MaxParts == MAX_FILE_SIZE \div PART_SIZE
MinutesPerDay == 24 * 60
\* utils/constants.ts, in seconds
MAX_RECORDING_DURATION == 420

Users == {"alice", "bob"}
\* User.subscriptionTier: alice is on the free tier, bob on the paid one
subscriptionTier(u) == IF u = "alice" THEN "free" ELSE "pro"

\* the slots of the requests in progress at the same time
Procs == {1, 2}
\* uuids: 1..MaxNew are handed out during the run, the others are those of
\* the rows the database holds at the start
IdsEnd == IF MaxNew > QuotaNew THEN MaxNew ELSE QuotaNew
NewIds == 1..IdsEnd
OldIds == (IdsEnd + 1)..(IdsEnd + FREE_TIER_MAX_RECORDINGS)
Ids == NewIds \cup OldIds
None == [none |-> TRUE]

CeilDiv(a, b) == (a + b - 1) \div b
RECURSIVE SumOver(_, _)
\* the sum of f over the set S
SumOver(f, S) ==
  IF S = {} THEN 0
  ELSE LET x == CHOOSE y \in S : TRUE IN f[x] + SumOver(f, S \ {x})
SeqToSet(s) == {s[i] : i \in DOMAIN s}

VARIABLES
  now,         \* the server's clock
  sessions,    \* table UploadSession, keyed by recordingId (unique)
  recordings,  \* table Recording, a sequence of rows in insertion order
  uploads,     \* the storage's multipart uploads, keyed by uploadId: the part
               \* numbers that were PUT and the size of the body of each
  urls,        \* number of presigned part URLs issued per upload
  nextId,      \* the next uuid
  pc,          \* where each request is in its handler
  call,        \* the request's arguments
  loc,         \* the handler's local variables
  resp         \* the response of a finished request

serverVars == <<now, sessions, recordings, uploads, urls, nextId, pc, call, loc, resp>>

VARIABLES
  recordingState,  \* service worker: let recordingState
  swEpoch,         \* how many times the service worker was started again
  docExists,       \* hasOffscreenDocument()
  mediaRecorder,   \* offscreen: state of the recorder in let mediaRecorder
  recordedChunks,  \* offscreen: let recordedChunks
  screenStream,    \* offscreen: let screenStream ("null", "live", "ended")
  webcamStream,    \* offscreen: let webcamStream ("null", "live")
  micStream,       \* offscreen: let micStream ("null", "live")
  live,            \* the browser: screen captures whose tracks are live
  orphans,         \* the browser: recorders still capturing that no variable holds
  reqs,            \* requests of the popup on their way through the three parts
  toSw,            \* messages of the offscreen document on their way to the service worker
  toUi,            \* SCREEN_SHARE_ENDED on its way to the popup
  ui,              \* the popup
  clock,           \* Date.now() of the extension, in seconds
  timeline,        \* the recorder: seconds recorded, and how often it was paused
  up,              \* the uploader (Uploader.upload) and the requests it has made
  compositorRunning,  \* offscreen: let compositorRunning
  animationId,     \* offscreen: let animationId ("null", "set")
  frames,          \* the browser: frame callbacks of the offscreen document that are pending
  app,             \* the popup that records by itself (App.vue)
  compositor,      \* its Compositor
  api              \* the ApiClient of the popup, its stored tokens, and the
                   \* request it is carrying out

extVars == <<recordingState, swEpoch, docExists, mediaRecorder, recordedChunks,
             screenStream, webcamStream, micStream, live, orphans, reqs, toSw,
             toUi, ui, clock, timeline, up, compositorRunning, animationId, frames,
             app, compositor, api>>
compVars == <<compositorRunning, animationId, frames>>
osVars == <<docExists, mediaRecorder, recordedChunks, screenStream, webcamStream,
            micStream, live, orphans, timeline, compVars>>
appVars == <<app, compositor, api>>

vars == <<serverVars, extVars>>

(***************************************************************************)
(* Bounds and initial state of the extension.                              *)
(***************************************************************************)
\* chunks the recorder emits during a run
MaxChunks == 1
\* ticks of the extension's clock
MaxClock == 4
\* restarts of the service worker during a run
MaxRestarts == 1
\* screen captures, and recorders that lost their variable, alive at one time
MaxLive == 2
\* the same, in the runs in which the service worker is started again
RestartLive == 1
\* pauses of one recorder that are counted (more count as this many)
MaxPauses == 2
\* compositors of the offscreen document that draw at one time
MaxFrames == 2
\* the slots of the requests of the popup that are in progress
ReqSlots == {1}
Null == <<>>

\* service-worker.js: let recordingState (blobData left out)
InitialRecordingState ==
  [isRecording |-> FALSE, isPaused |-> FALSE, startTime |-> Null]

NoLive == 0
\* ViblyPopup: state, the text of the pause button, and the timer's fields
\* (timerInterval: "null", "running", "due" when its callback is to run,
\* "cleared" after clearInterval without an assignment)
NewUi ==
  [open |-> TRUE, state |-> "init", paused |-> FALSE, startTime |-> Null,
   pausedTime |-> 0, elapsedSeconds |-> 0, timerInterval |-> "null"]
ClosedUi == [NewUi EXCEPT !.open = FALSE, !.state = "closed"]
\* a recorder that has recorded nothing and was never paused
NoTimeline == [recorded |-> 0, pauses |-> 0]
\* Uploader.upload before it is called: its arguments and local variables
\* (size, totalParts, recordingId, uploadUrls, i, parts), those of
\* uploadPartWithRetry (attempt), the request and the response of fetch, and
\* what the network saw: PUT requests in flight, PUT requests made for the
\* current part and for each of the first TriesKept parts, the parts the storage
\* holds, the calls of completeRecording, and the delays (in seconds) that
\* uploadPartWithRetry has waited for the current part
IdleUploader ==
  [phase |-> "idle", size |-> 0, totalParts |-> 0, recordingId |-> 0,
   uploadUrls |-> <<>>, i |-> 0, parts |-> <<>>, attempt |-> 0,
   request |-> None, response |-> None, inflight |-> 0, tries |-> 0,
   triesOf |-> <<>>, stored |-> {}, completes |-> 0, delays |-> <<>>]
\* App.vue when the popup opens: state, recordingBlob (null, or its size in
\* MiB), errorMessage, shareUrl, isGuest, apiClient.isAuthenticated(),
\* timerInterval; the fields of its MediaHandler (mediaRecorder,
\* recordedChunks, and whether its streams are live); where startRecording and
\* stopRecording are at their awaits; and whether the user was handed the
\* artifact as a download
NewApp ==
  [state |-> "auth", recordingBlob |-> Null, errorMessage |-> Null, shareUrl |-> Null,
   isGuest |-> FALSE, authenticated |-> FALSE, timerInterval |-> "null",
   mediaRecorder |-> "null", recordedChunks |-> <<>>, tracks |-> FALSE,
   starting |-> FALSE, stopping |-> "no", downloaded |-> FALSE]
\* the ApiClient after loadTokens found no tokens: accessToken, refreshToken,
\* user; chrome.storage.local; request() at its awaits, its endpoint, the
\* number of fetches of the endpoint it has made, the Authorization header of each, the first
\* response, the response it returned; the tokens the backend issued last
NewApiClient ==
  [accessToken |-> Null, refreshToken |-> Null, user |-> Null,
   storage |-> [accessToken |-> Null, refreshToken |-> Null, user |-> Null],
   phase |-> "idle", endpoint |-> Null, fetches |-> 0, authorization |-> <<>>,
   first |-> Null, returned |-> Null, refreshed |-> "no", issued |-> 0]

\* new Compositor(): isRunning, animationId, webcamStream ("null", "live"), and
\* ctx, canvas and screenVideo together (ready); with the frame callbacks the browser holds for it
\* (pending), the number of frames it drew, each followed by a request for the
\* next one (frames), and whether stop() or cleanup() was called since the
\* last start() (halted)
NewCompositor ==
  [isRunning |-> FALSE, animationId |-> Null, webcamStream |-> "null", ready |-> FALSE,
   pending |-> {}, frames |-> 0, halted |-> TRUE]
RecorderActive == mediaRecorder \in {"recording", "paused"}

ExtInit ==
  /\ recordingState = InitialRecordingState
  /\ swEpoch = 0
  /\ docExists = FALSE
  /\ mediaRecorder = "null"
  /\ recordedChunks = <<>>
  /\ screenStream = "null"
  /\ webcamStream = "null"
  /\ micStream = "null"
  /\ live = NoLive
  /\ orphans = 0
  /\ reqs = [r \in ReqSlots |-> None]
  /\ toSw = {}
  /\ toUi = FALSE
  /\ ui = ClosedUi
  /\ clock = 0
  /\ timeline = NoTimeline
  /\ up = IdleUploader
  /\ compositorRunning = FALSE
  /\ animationId = "null"
  /\ frames = 0
  /\ app = NewApp
  /\ compositor = NewCompositor
  /\ api = NewApiClient

(***************************************************************************)
(* Pure parts of the handlers.                                             *)
(***************************************************************************)
\* class-validator on InitRecordingDto: both fields @Min(1)
InitDtoValid(dto) == dto.estimatedSize >= 1 /\ dto.partCount >= 1

\* prisma.recording.count({ where: { userId } })
recordingCount(rows, userId) ==
  Cardinality({i \in DOMAIN rows : rows[i].userId = userId})

QuotaCheckOffByOne(tier, count) ==
  tier = "free" /\ count > FREE_TIER_MAX_RECORDINGS
\* initRecording: the free tier's limit
QuotaExceeded(tier, count) ==
  tier = "free" /\ count >= FREE_TIER_MAX_RECORDINGS

\* R2Service.getPresignedUploadUrls: one URL per part number 1..partCount
getPresignedUploadUrls(uploadId, partCount) ==
  [i \in 1..partCount |-> [uploadId |-> uploadId, partNumber |-> i]]

ValidateStatusBeforeOwner(session, userId, t) ==
  IF session = None THEN "NotFound"
  ELSE IF session.status # "uploading" THEN "Inactive"
  ELSE IF session.userId # userId THEN "Forbidden"
  ELSE IF session.expiresAt < t THEN "Expired"
  ELSE "ok"
ValidateNoOwnerCheck(session, userId, t) ==
  IF session = None THEN "NotFound"
  ELSE IF session.status # "uploading" THEN "Inactive"
  ELSE IF session.expiresAt < t THEN "Expired"
  ELSE "ok"
ValidateNoStatusCheck(session, userId, t) ==
  IF session = None THEN "NotFound"
  ELSE IF session.userId # userId THEN "Forbidden"
  ELSE IF session.expiresAt < t THEN "Expired"
  ELSE "ok"
ValidateNoExpiryCheck(session, userId, t) ==
  IF session = None THEN "NotFound"
  ELSE IF session.userId # userId THEN "Forbidden"
  ELSE IF session.status # "uploading" THEN "Inactive"
  ELSE "ok"
\* completeRecording: the checks on the session that was read, in order
ValidateSession(session, userId, t) ==
  IF session = None THEN "NotFound"
  ELSE IF session.userId # userId THEN "Forbidden"
  ELSE IF session.status # "uploading" THEN "Inactive"
  ELSE IF session.expiresAt < t THEN "Expired"
  ELSE "ok"

\* the integrity token storage returns for a part
ETagOf(uploadId, partNumber) == uploadId * 1000 + partNumber

\* storage's CompleteMultipartUpload: the listed parts are in ascending order
\* and each is a part that was uploaded, with its token
StorageAccepts(upload, uploadId, parts) ==
  /\ upload.state = "open"
  /\ Len(parts) >= 1
  /\ \A i \in 1..Len(parts) :
       /\ parts[i].partNumber \in upload.parts
       /\ parts[i].etag = ETagOf(uploadId, parts[i].partNumber)
       /\ i > 1 => parts[i - 1].partNumber < parts[i].partNumber

\* R2Service.getObjectMetadata: the assembled object's ContentLength, or null
\* when HeadObject fails
getObjectMetadata(upload, head) ==
  IF head = "ok"
    THEN [contentLength |-> SumOver(upload.bytes, upload.parts)]
    ELSE None

\* completeRecording: metadata?.contentLength || 0
fileSize(metadata) == IF metadata = None THEN 0 ELSE metadata.contentLength

\* Recording.expiresAt: null is -1
NullDate == -1
recordingExpiresAtForEveryTier(tier, t) == t + FREE_TIER_RETENTION_DAYS * MinutesPerDay
\* completeRecording: the expiry date of the recording, from Date.now() = t
recordingExpiresAt(tier, t) ==
  IF tier = "free" THEN t + FREE_TIER_RETENTION_DAYS * MinutesPerDay ELSE NullDate

InsertNoPrimaryKey(rows, row) ==
  \A i \in DOMAIN rows : rows[i].shareToken # row.shareToken
\* table Recording: primary key id, unique index on shareToken
RecordingInsertOk(rows, row) ==
  \A i \in DOMAIN rows :
     rows[i].id # row.id /\ rows[i].shareToken # row.shareToken

(***************************************************************************)
(* Inputs.                                                                 *)
(***************************************************************************)
\* what Uploader.upload sends for an artifact of s MiB
InitDto(s) == [estimatedSize |-> s, partCount |-> CeilDiv(s, PART_SIZE)]

\* the ordered part list a client sends after uploading parts 1..n of upload u
PartList(u, n) == [i \in 1..n |-> [partNumber |-> i, etag |-> ETagOf(u, i)]]
\* the same with a token storage never returned
BadTokenList(u, n) == [i \in 1..n |-> [partNumber |-> i, etag |-> 0]]
\* parts 1 and 2 in the wrong order
SwappedList(u) == <<[partNumber |-> 2, etag |-> ETagOf(u, 2)],
                    [partNumber |-> 1, etag |-> ETagOf(u, 1)]>>
PartsOf(kind, u, n) ==
  CASE kind = "good" -> PartList(u, n)
    [] kind = "badToken" -> BadTokenList(u, 1)
    [] kind = "swapped" -> SwappedList(u)
\* generateShareToken draws at random: here, a token that only the calls for
\* this recording draw, or one that every call may draw
ShareToken(kind, id) == IF kind = "perId" THEN id ELSE IdsEnd + 1

\* a row of Recording that completeRecording inserted at time t
RecordingRow(id, userId, size, token, expiresAt) ==
  [id |-> id, userId |-> userId, fileSize |-> size, shareToken |-> token,
   expiresAt |-> expiresAt, viewCount |-> 0]

\* a row of UploadSession that initRecording inserted at time t
SessionRow(id, userId, uploadId, t) ==
  [recordingId |-> id, userId |-> userId, uploadId |-> uploadId,
   status |-> "uploading", createdAt |-> t, expiresAt |-> t + SESSION_TTL]

RetentionMinutes == FREE_TIER_RETENTION_DAYS * MinutesPerDay

(***************************************************************************)
(* The database may already hold k finished uploads of alice when the run  *)
(* starts: each was opened by initRecording and completed by               *)
(* completeRecording at time 0.                                            *)
(***************************************************************************)
ServerInitWith(preExisting) ==
  /\ now = 0
  /\ \E k \in preExisting :
       LET old == (IdsEnd + 1)..(IdsEnd + k) IN
       /\ sessions = [i \in Ids |->
            IF i \in old
              THEN [SessionRow(i, "alice", i, 0) EXCEPT !.status = "completed"]
              ELSE None]
       /\ recordings = [j \in 1..k |->
            RecordingRow(IdsEnd + j, "alice", 1, IdsEnd + j, RetentionMinutes)]
       /\ uploads = [i \in Ids |->
            IF i \in old THEN [state |-> "assembled", parts |-> {1}, bytes |-> <<1>>]
            ELSE [state |-> "none", parts |-> {}, bytes |-> <<>>]]
       /\ urls = [i \in Ids |-> IF i \in old THEN 1 ELSE 0]
  /\ nextId = 1
  /\ pc = [p \in Procs |-> "idle"]
  /\ call = [p \in Procs |-> None]
  /\ loc = [p \in Procs |-> None]
  /\ resp = [p \in Procs |-> None]

Finish(p, r) ==
  /\ pc' = [pc EXCEPT ![p] = "done"]
  /\ resp' = [resp EXCEPT ![p] = r]

Goto(p, label) ==
  /\ pc' = [pc EXCEPT ![p] = label]
  /\ UNCHANGED resp

Fails(kind) == [status |-> kind]

\* request slots are taken lowest first
SlotFree(p) == pc[p] = "idle" /\ \A q \in Procs : q < p => pc[q] # "idle"

(***************************************************************************)
(* POST recordings/init                                                    *)
(***************************************************************************)
\* a request arrives; the ValidationPipe checks the DTO
initRecording_call(p, users, sizes, maxNew) ==
  /\ SlotFree(p)
  /\ nextId + Cardinality({q \in Procs : pc[q] \in {"i_quota", "i_storage"}}) <= maxNew
  /\ \E u \in users, dto \in {InitDto(s) : s \in sizes} :
       /\ call' = [call EXCEPT ![p] = [op |-> "init", userId |-> u, dto |-> dto]]
       /\ IF InitDtoValid(dto)
            THEN Goto(p, "i_quota")
            ELSE Finish(p, Fails("BadRequest"))
  /\ UNCHANGED <<now, sessions, recordings, uploads, urls, nextId, loc,
                 extVars>>

\* user.findUnique, recording.count and the limit of the free tier
initRecording_quota(p) ==
  /\ pc[p] = "i_quota"
  /\ IF QuotaExceeded(subscriptionTier(call[p].userId),
                      recordingCount(recordings, call[p].userId))
       THEN Finish(p, Fails("QuotaExceeded"))
       ELSE Goto(p, "i_storage")
  /\ UNCHANGED <<now, sessions, recordings, uploads, urls, nextId, call, loc,
                 extVars>>

\* recordingId = uuid(), createMultipartUpload, getPresignedUploadUrls
initRecording_storage(p) ==
  /\ pc[p] = "i_storage"
  /\ LET id == nextId IN
       /\ nextId' = nextId + 1
       /\ uploads' = [uploads EXCEPT ![id] = [state |-> "open", parts |-> {}, bytes |-> <<>>]]
       /\ urls' = [urls EXCEPT ![id] = call[p].dto.partCount]
       /\ loc' = [loc EXCEPT ![p] =
            [recordingId |-> id, uploadId |-> id,
             uploadUrls |-> getPresignedUploadUrls(id, call[p].dto.partCount)]]
  /\ Goto(p, "i_persist")
  /\ UNCHANGED <<now, sessions, recordings, call,
                 extVars>>

\* uploadSession.create with expiresAt = Date.now() + 15 min, then the result
initRecording_persist(p) ==
  /\ pc[p] = "i_persist"
  /\ sessions' = [sessions EXCEPT ![loc[p].recordingId] =
       SessionRow(loc[p].recordingId, call[p].userId, loc[p].uploadId, now)]
  /\ Finish(p, [status |-> "ok", recordingId |-> loc[p].recordingId,
                uploadId |-> loc[p].uploadId, uploadUrls |-> loc[p].uploadUrls])
  /\ UNCHANGED <<now, recordings, uploads, urls, nextId, call, loc,
                 extVars>>

(***************************************************************************)
(* The client PUTs a part to a presigned URL.                              *)
(***************************************************************************)
\* (the body has one of the sizes in bodies)
PutPart(maxPut, bodies) ==
  \E id \in NewIds, n \in 1..maxPut, size \in bodies :
    /\ n <= urls[id]
    /\ uploads[id].state = "open"
    /\ n \notin uploads[id].parts
    /\ uploads' = [uploads EXCEPT ![id].parts = @ \cup {n},
                                  ![id].bytes = [k \in uploads[id].parts \cup {n} |->
                                                   IF k = n THEN size ELSE @[k]]]
    /\ UNCHANGED <<now, sessions, recordings, urls, nextId, pc, call, loc, resp,
                 extVars>>

(***************************************************************************)
(* POST recordings/:id/complete                                            *)
(***************************************************************************)
\* the request names a session of this run, a uuid that names none, or a
\* session that was completed before the run
completeRecording_call(p, users, kinds, maxPut) ==
  /\ SlotFree(p)
  /\ \E u \in users, id \in 1..(IdsEnd + 1), kind \in kinds :
       /\ id <= nextId \/ id > IdsEnd
       /\ call' = [call EXCEPT ![p] =
            [op |-> "complete", userId |-> u, recordingId |-> id,
             parts |-> PartsOf(kind, id, maxPut)]]
  /\ Goto(p, "c_read")
  /\ UNCHANGED <<now, sessions, recordings, uploads, urls, nextId, loc,
                 extVars>>

\* uploadSession.findUnique({ where: { recordingId } })
completeRecording_read(p) ==
  /\ pc[p] = "c_read"
  /\ loc' = [loc EXCEPT ![p] = [session |-> sessions[call[p].recordingId]]]
  /\ Goto(p, "c_validate")
  /\ UNCHANGED <<now, sessions, recordings, uploads, urls, nextId, call,
                 extVars>>

\* the four checks, against the session that was read and new Date()
completeRecording_validate(p) ==
  /\ pc[p] = "c_validate"
  /\ LET v == ValidateSession(loc[p].session, call[p].userId, now) IN
       IF v = "ok" THEN Goto(p, "c_assemble") ELSE Finish(p, Fails(v))
  /\ UNCHANGED <<now, sessions, recordings, uploads, urls, nextId, call, loc,
                 extVars>>

StorageErrorSwallowed(p) == Goto(p, "c_meta")
\* await this.r2Service.completeMultipartUpload(...) throws: no catch
completeMultipartUploadThrows(p) == Finish(p, Fails("StorageError"))

\* r2Service.completeMultipartUpload: a rejection propagates.  What storage
\* answers to a second completion of an assembled upload is not fixed: it may
\* repeat its success or report that the upload is gone.
completeRecording_assemble(p) ==
  /\ pc[p] = "c_assemble"
  /\ LET u == loc[p].session.uploadId IN
       \/ /\ StorageAccepts(uploads[u], u, call[p].parts)
          /\ LET listed == {call[p].parts[i].partNumber : i \in 1..Len(call[p].parts)} IN
               uploads' = [uploads EXCEPT ![u].state = "assembled",
                                          ![u].parts = listed,
                                          ![u].bytes = [k \in listed |-> @[k]]]
          /\ Goto(p, "c_meta")
       \/ /\ uploads[u].state = "assembled"
          /\ UNCHANGED uploads
          /\ Goto(p, "c_meta")
       \/ /\ ~StorageAccepts(uploads[u], u, call[p].parts)
          /\ UNCHANGED uploads
          /\ completeMultipartUploadThrows(p)
  /\ UNCHANGED <<now, sessions, recordings, urls, nextId, call, loc,
                 extVars>>

\* getObjectMetadata (HeadObject answers, or fails and null is returned),
\* fileSize = metadata?.contentLength || 0, generateShareToken,
\* user.findUnique, the expiry date
completeRecording_meta(p, tokenKinds, heads) ==
  /\ pc[p] = "c_meta"
  /\ LET u == loc[p].session.uploadId IN
       \E kind \in tokenKinds, head \in heads :
         loc' = [loc EXCEPT ![p] =
           [session |-> loc[p].session,
            fileSize |-> fileSize(getObjectMetadata(uploads[u], head)),
            shareToken |-> ShareToken(kind, call[p].recordingId),
            expiresAt |-> recordingExpiresAt(subscriptionTier(call[p].userId), now)]]
  /\ Goto(p, "c_create")
  /\ UNCHANGED <<now, sessions, recordings, uploads, urls, nextId, call,
                 extVars>>

\* recording.create({ data: { id: recordingId, ... } })
completeRecording_create(p) ==
  /\ pc[p] = "c_create"
  /\ LET row == RecordingRow(call[p].recordingId, call[p].userId,
                             loc[p].fileSize, loc[p].shareToken, loc[p].expiresAt) IN
       IF RecordingInsertOk(recordings, row)
         THEN /\ recordings' = Append(recordings, row)
              /\ Goto(p, "c_update")
         ELSE /\ UNCHANGED recordings
              /\ Finish(p, Fails("UniqueConstraint"))
  /\ UNCHANGED <<now, sessions, uploads, urls, nextId, call, loc,
                 extVars>>

\* uploadSession.update({ data: { status: 'completed' } }), then the result;
\* or the database rejects the update, and the rejection propagates
completeRecording_update(p, outcomes) ==
  /\ pc[p] = "c_update"
  /\ \/ /\ "ok" \in outcomes
        /\ sessions' = [sessions EXCEPT ![call[p].recordingId].status = "completed"]
        /\ Finish(p, [status |-> "ok", shareToken |-> loc[p].shareToken,
                      shareUrl |-> <<"/v/", loc[p].shareToken>>])
     \/ /\ "error" \in outcomes
        /\ UNCHANGED sessions
        /\ Finish(p, Fails("DatabaseError"))
  /\ UNCHANGED <<now, recordings, uploads, urls, nextId, call, loc,
                 extVars>>

\* the response is sent; the request's slot is free again
Return(p) ==
  /\ pc[p] = "done"
  /\ pc' = [pc EXCEPT ![p] = "idle"]
  /\ call' = [call EXCEPT ![p] = None]
  /\ loc' = [loc EXCEPT ![p] = None]
  /\ resp' = [resp EXCEPT ![p] = None]
  /\ UNCHANGED <<now, sessions, recordings, uploads, urls, nextId,
                 extVars>>

Tick ==
  /\ now + ClockStep <= MaxTime
  /\ now' = now + ClockStep
  /\ UNCHANGED <<sessions, recordings, uploads, urls, nextId, pc, call, loc, resp,
                 extVars>>

(***************************************************************************)
(* ServerSpec: one upload session, both users, good and bad part lists,    *)
(* the clock.                                                              *)
(***************************************************************************)
\* the backend with an empty database, the extension as installed
ServerInit == ServerInitWith({0}) /\ ExtInit

ServerNext ==
  \/ \E p \in Procs : initRecording_call(p, Users, {2 * PART_SIZE}, MaxNew)
  \/ \E p \in Procs : initRecording_quota(p)
  \/ \E p \in Procs : initRecording_storage(p)
  \/ \E p \in Procs : initRecording_persist(p)
  \/ PutPart(MaxPut, {PART_SIZE})
  \/ \E p \in Procs : completeRecording_call(p, Users, {"good", "badToken"}, MaxPut)
  \/ \E p \in Procs : completeRecording_read(p)
  \/ \E p \in Procs : completeRecording_validate(p)
  \/ \E p \in Procs : completeRecording_assemble(p)
  \/ \E p \in Procs : completeRecording_meta(p, {"perId", "shared"}, {"ok"})
  \/ \E p \in Procs : completeRecording_create(p)
  \/ \E p \in Procs : completeRecording_update(p, {"ok"})
  \/ \E p \in Procs : Return(p)
  \/ Tick

ServerSpec == ServerInit /\ [][ServerNext]_vars

(***************************************************************************)
(* QuotaSpec: alice's uploads against the limit of the free tier, with a   *)
(* database that holds none or all but one of the recordings she may own;  *)
(* artifacts of every size class; the clock stands still.                  *)
(***************************************************************************)
QuotaInit == ServerInitWith({0, FREE_TIER_MAX_RECORDINGS - 1}) /\ ExtInit

QuotaNext ==
  \/ \E p \in Procs :
       initRecording_call(p, {"alice"}, {0, PART_SIZE, MAX_FILE_SIZE + 1}, QuotaNew)
  \/ \E p \in Procs : initRecording_quota(p)
  \/ \E p \in Procs : initRecording_storage(p)
  \/ \E p \in Procs : initRecording_persist(p)
  \/ PutPart(QuotaPut, {PART_SIZE})
  \/ \E p \in Procs : completeRecording_call(p, {"alice"}, {"good"}, QuotaPut)
  \/ \E p \in Procs : completeRecording_read(p)
  \/ \E p \in Procs : completeRecording_validate(p)
  \/ \E p \in Procs : completeRecording_assemble(p)
  \/ \E p \in Procs : completeRecording_meta(p, {"perId", "shared"}, {"ok"})
  \/ \E p \in Procs : completeRecording_create(p)
  \/ \E p \in Procs : completeRecording_update(p, {"ok"})
  \/ \E p \in Procs : Return(p)

QuotaSpec == QuotaInit /\ [][QuotaNext]_vars

(***************************************************************************)
(* CompleteSpec: alice's upload of an artifact of two parts, the second    *)
(* shorter than PART_SIZE; part lists that are good, out of order or carry *)
(* an unknown token, sent before or after the parts were PUT; a HeadObject *)
(* that answers or fails; the clock stands still.                          *)
(***************************************************************************)
ShortPart == 2

CompleteNext ==
  \/ \E p \in Procs : initRecording_call(p, {"alice"}, {PART_SIZE + ShortPart}, MaxNew)
  \/ \E p \in Procs : initRecording_quota(p)
  \/ \E p \in Procs : initRecording_storage(p)
  \/ \E p \in Procs : initRecording_persist(p)
  \/ PutPart(MaxPut, {PART_SIZE, ShortPart})
  \/ \E p \in Procs :
       completeRecording_call(p, {"alice"}, {"good", "badToken", "swapped"}, MaxPut)
  \/ \E p \in Procs : completeRecording_read(p)
  \/ \E p \in Procs : completeRecording_validate(p)
  \/ \E p \in Procs : completeRecording_assemble(p)
  \/ \E p \in Procs : completeRecording_meta(p, {"perId"}, {"ok", "error"})
  \/ \E p \in Procs : completeRecording_create(p)
  \/ \E p \in Procs : completeRecording_update(p, {"ok"})
  \/ \E p \in Procs : Return(p)

CompleteSpec == ServerInit /\ [][CompleteNext]_vars

(***************************************************************************)
(* WriteSpec: alice's upload of an artifact of one part, with a database   *)
(* that may reject the update of the session after it took the Recording.  *)
(***************************************************************************)
WriteNext ==
  \/ \E p \in Procs : initRecording_call(p, {"alice"}, {PART_SIZE}, MaxNew)
  \/ \E p \in Procs : initRecording_quota(p)
  \/ \E p \in Procs : initRecording_storage(p)
  \/ \E p \in Procs : initRecording_persist(p)
  \/ PutPart(QuotaPut, {PART_SIZE})
  \/ \E p \in Procs : completeRecording_call(p, {"alice"}, {"good", "badToken"}, QuotaPut)
  \/ \E p \in Procs : completeRecording_read(p)
  \/ \E p \in Procs : completeRecording_validate(p)
  \/ \E p \in Procs : completeRecording_assemble(p)
  \/ \E p \in Procs : completeRecording_meta(p, {"perId"}, {"ok", "error"})
  \/ \E p \in Procs : completeRecording_create(p)
  \/ \E p \in Procs : completeRecording_update(p, {"ok", "error"})
  \/ \E p \in Procs : Return(p)

WriteSpec == ServerInit /\ [][WriteNext]_vars

\* the steps of the handlers of WriteSpec, without the arrival of a request
\* and without the client's PUT
WriteHandlerStep ==
  \E p \in Procs :
    \/ initRecording_quota(p)
    \/ initRecording_storage(p)
    \/ initRecording_persist(p)
    \/ completeRecording_read(p)
    \/ completeRecording_validate(p)
    \/ completeRecording_assemble(p)
    \/ completeRecording_meta(p, {"perId"}, {"ok", "error"})
    \/ completeRecording_create(p)
    \/ completeRecording_update(p, {"ok", "error"})
    \/ Return(p)

\* a request that has arrived is handled to its end; the client is free to
\* send nothing more
WriteFairSpec == WriteSpec /\ WF_vars(WriteHandlerStep)

(***************************************************************************)
(* GET share/:shareToken                                                   *)
(***************************************************************************)
\* share pages served during a run
MaxViews == 3
\* the expiresIn of the signed read URL, in seconds
SIGNED_URL_TTL == 3600

\* prisma.recording.findUnique({ where: { shareToken } })
findByShareToken(rows, token) ==
  IF \E i \in DOMAIN rows : rows[i].shareToken = token
    THEN rows[CHOOSE i \in DOMAIN rows : rows[i].shareToken = token]
    ELSE None

ExpiredWhenNull(recording, t) == recording.expiresAt < t
\* recording.expiresAt && recording.expiresAt < new Date()
hasExpired(recording, t) ==
  recording.expiresAt # NullDate /\ recording.expiresAt < t

\* R2Service.getSignedDownloadUrl(key, 3600)
getSignedDownloadUrl(key, expiresIn) == [key |-> key, expiresIn |-> expiresIn]

\* a request arrives with a token of a row, or one that no row has
getRecordingByShareToken_call(p, tokens) ==
  /\ SlotFree(p)
  /\ SumOver([i \in DOMAIN recordings |-> recordings[i].viewCount], DOMAIN recordings)
       + Cardinality({q \in Procs : pc[q] # "idle"}) < MaxViews
  /\ \E token \in tokens :
       call' = [call EXCEPT ![p] = [op |-> "get", shareToken |-> token]]
  /\ Goto(p, "g_find")
  /\ UNCHANGED <<now, sessions, recordings, uploads, urls, nextId, loc,
                 extVars>>

\* recording.findUnique
getRecordingByShareToken_find(p) ==
  /\ pc[p] = "g_find"
  /\ loc' = [loc EXCEPT ![p] =
       [recording |-> findByShareToken(recordings, call[p].shareToken)]]
  /\ Goto(p, "g_check")
  /\ UNCHANGED <<now, sessions, recordings, uploads, urls, nextId, call,
                 extVars>>

\* the two checks, against the row that was read and new Date()
getRecordingByShareToken_check(p) ==
  /\ pc[p] = "g_check"
  /\ IF loc[p].recording = None
       THEN Finish(p, Fails("NotFound"))
       ELSE IF hasExpired(loc[p].recording, now)
         THEN Finish(p, Fails("NotFound"))
         ELSE Goto(p, "g_url")
  /\ UNCHANGED <<now, sessions, recordings, uploads, urls, nextId, call, loc,
                 extVars>>

\* getSignedDownloadUrl, then recording.update(...) is called and not awaited,
\* then the result: the request's slot is kept until the update has settled
getRecordingByShareToken_url(p) ==
  /\ pc[p] = "g_url"
  /\ pc' = [pc EXCEPT ![p] = "g_write"]
  /\ resp' = [resp EXCEPT ![p] =
       [status |-> "ok",
        videoUrl |-> getSignedDownloadUrl(loc[p].recording.id, SIGNED_URL_TTL)]]
  /\ UNCHANGED <<now, sessions, recordings, uploads, urls, nextId, call, loc,
                 extVars>>

\* the update settles: viewCount: { increment: 1 } on the row, or an error
\* that .catch(() => {}) drops
getRecordingByShareToken_increment(p) ==
  /\ pc[p] = "g_write"
  /\ \/ recordings' = [i \in DOMAIN recordings |->
          IF recordings[i].id = loc[p].recording.id
            THEN [recordings[i] EXCEPT !.viewCount = @ + 1]
            ELSE recordings[i]]
     \/ UNCHANGED recordings
  /\ pc' = [pc EXCEPT ![p] = "done"]
  /\ UNCHANGED <<now, sessions, uploads, urls, nextId, call, loc, resp,
                 extVars>>

(***************************************************************************)
(* ShareSpec: the share pages of two recordings that were completed before *)
(* the run: alice's, which expires ClockStep minutes into the run, and     *)
(* bob's, which never expires; and of a token that no row has.             *)
(***************************************************************************)
ShareInit ==
  /\ now = 0
  /\ LET old == {IdsEnd + 1, IdsEnd + 2}
         owner(i) == IF i = IdsEnd + 1 THEN "alice" ELSE "bob" IN
       /\ sessions = [i \in Ids |->
            IF i \in old
              THEN [SessionRow(i, owner(i), i, 0) EXCEPT !.status = "completed"]
              ELSE None]
       /\ recordings =
            <<RecordingRow(IdsEnd + 1, "alice", 1, IdsEnd + 1, ClockStep),
              RecordingRow(IdsEnd + 2, "bob", 1, IdsEnd + 2,
                           recordingExpiresAt(subscriptionTier("bob"), 0))>>
       /\ uploads = [i \in Ids |->
            IF i \in old THEN [state |-> "assembled", parts |-> {1}, bytes |-> <<1>>]
            ELSE [state |-> "none", parts |-> {}, bytes |-> <<>>]]
       /\ urls = [i \in Ids |-> IF i \in old THEN 1 ELSE 0]
  /\ nextId = 1
  /\ pc = [p \in Procs |-> "idle"]
  /\ call = [p \in Procs |-> None]
  /\ loc = [p \in Procs |-> None]
  /\ resp = [p \in Procs |-> None]
  /\ ExtInit

ShareNext ==
  \/ \E p \in Procs :
       getRecordingByShareToken_call(p, {IdsEnd + 1, IdsEnd + 2, IdsEnd + 3})
  \/ \E p \in Procs : getRecordingByShareToken_find(p)
  \/ \E p \in Procs : getRecordingByShareToken_check(p)
  \/ \E p \in Procs : getRecordingByShareToken_url(p)
  \/ \E p \in Procs : getRecordingByShareToken_increment(p)
  \/ \E p \in Procs : Return(p)
  \/ Tick

ShareSpec == ShareInit /\ [][ShareNext]_vars

(***************************************************************************)
(* Properties of the upload orchestrator.                                  *)
(***************************************************************************)
RowsWithId(rows, id) == Cardinality({i \in DOMAIN rows : rows[i].id = id})
Busy(p) == pc[p] # "idle"
Completing(p) == Busy(p) /\ call[p].op = "complete"
Initing(p) == Busy(p) /\ call[p].op = "init"
\* request p takes the step that applies the checks of completeRecording
Validates(p) == pc[p] = "c_validate" /\ pc'[p] # "c_validate"
dbUnchanged == UNCHANGED <<sessions, recordings, uploads, urls>>

\* C1: a complete call by the owner that finds the session completed (the
\* first complete succeeded) fails with 'Upload session is not active',
\* changes no row and no upload, and leaves exactly one Recording row
C1_SecondCompleteInactive ==
  [][\A p \in Procs :
       (/\ Validates(p)
        /\ loc[p].session # None
        /\ loc[p].session.userId = call[p].userId
        /\ loc[p].session.status = "completed")
       => /\ pc'[p] = "done"
          /\ resp'[p] = Fails("Inactive")
          /\ dbUnchanged
          /\ RowsWithId(recordings', call[p].recordingId) = 1]_vars

\* a second call, alone, was answered 'not active' after the first succeeded
C1_Witness ==
  \E p \in Procs :
    /\ pc[p] = "done" /\ call[p].op = "complete"
    /\ resp[p] = Fails("Inactive")
    /\ loc[p].session.userId = call[p].userId
    /\ sessions[call[p].recordingId].status = "completed"
    /\ RowsWithId(recordings, call[p].recordingId) = 1
    /\ \A q \in Procs \ {p} : pc[q] = "idle"

\* C2: whatever the interleaving of the complete calls, the table Recording
\* never holds two rows for one recordingId
C2_AtMostOneRecordingPerSession ==
  \A id \in Ids : RowsWithId(recordings, id) <= 1

\* two complete calls for one session both passed the checks; one inserted
\* the row, the other was stopped by the primary key
C2_Witness ==
  \E p, q \in Procs :
    /\ p # q /\ pc[p] = "done" /\ pc[q] = "done"
    /\ call[p].op = "complete" /\ call[q].op = "complete"
    /\ call[p].recordingId = call[q].recordingId
    /\ resp[p].status = "ok"
    /\ resp[q] = Fails("UniqueConstraint")
    /\ loc[q].shareToken # loc[p].shareToken

\* C3: a complete call by the owner of an 'uploading' session that is checked
\* after the session's expiresAt (its creation + 15 min) fails with 'Upload
\* session expired' and changes no row and no upload
C3_ExpiredSessionRejected ==
  [][\A p \in Procs :
       (/\ Validates(p)
        /\ loc[p].session # None
        /\ loc[p].session.userId = call[p].userId
        /\ loc[p].session.status = "uploading"
        /\ now > loc[p].session.expiresAt)
       => /\ pc'[p] = "done"
          /\ resp'[p] = Fails("Expired")
          /\ dbUnchanged
          /\ loc[p].session.expiresAt = loc[p].session.createdAt + SESSION_TTL]_vars

\* an expired call whose parts were all valid: storage would have assembled them
C3_Witness ==
  \E p \in Procs :
    /\ pc[p] = "done" /\ call[p].op = "complete"
    /\ resp[p] = Fails("Expired")
    /\ sessions[call[p].recordingId].status = "uploading"
    /\ StorageAccepts(uploads[call[p].recordingId], call[p].recordingId, call[p].parts)
    /\ RowsWithId(recordings, call[p].recordingId) = 0

\* C4: a complete call by another user than the session's owner fails with
\* 'Not authorized'; neither reading the session nor the checks change a row
\* or an upload
C4_ForeignCompleteForbidden ==
  [][\A p \in Procs :
       /\ (/\ Validates(p)
           /\ loc[p].session # None
           /\ loc[p].session.userId # call[p].userId)
          => /\ pc'[p] = "done"
             /\ resp'[p] = Fails("Forbidden")
             /\ dbUnchanged
       /\ (pc[p] = "c_read" /\ pc'[p] # "c_read") => dbUnchanged]_vars

\* bob was refused on alice's session while it could have been completed
C4_Witness ==
  \E p \in Procs :
    /\ pc[p] = "done" /\ call[p].op = "complete"
    /\ resp[p] = Fails("Forbidden")
    /\ sessions[call[p].recordingId].status = "uploading"
    /\ sessions[call[p].recordingId].userId # call[p].userId
    /\ StorageAccepts(uploads[call[p].recordingId], call[p].recordingId, call[p].parts)

\* C5: an init that asks for more than 100 parts never gets as far as an open
\* multipart upload, and no init answers with more than 100 upload URLs
C5_InitRejectsOver100Parts ==
  \A p \in Procs :
    Initing(p) =>
      /\ call[p].dto.partCount > MaxParts => pc[p] \notin {"i_persist"}
      /\ (pc[p] = "done" /\ resp[p].status = "ok") => Len(resp[p].uploadUrls) <= MaxParts

\* C6: an init by a free-tier user who owns 5 (or more) recordings fails with
\* the limit's error and changes no row, no upload and no URL
C6_QuotaExceededCreatesNothing ==
  [][\A p \in Procs :
       (/\ pc[p] = "i_quota" /\ pc'[p] # "i_quota"
        /\ subscriptionTier(call[p].userId) = "free"
        /\ recordingCount(recordings, call[p].userId) >= FREE_TIER_MAX_RECORDINGS)
       => /\ pc'[p] = "done"
          /\ resp'[p] = Fails("QuotaExceeded")
          /\ dbUnchanged
          /\ nextId' = nextId]_vars

\* alice owns exactly 5 recordings and her init was refused
C6_Witness ==
  \E p \in Procs :
    /\ pc[p] = "done" /\ call[p].op = "init"
    /\ resp[p] = Fails("QuotaExceeded")
    /\ recordingCount(recordings, "alice") = FREE_TIER_MAX_RECORDINGS

\* C7: a free-tier user never owns more than 5 recordings
C7_FreeTierNeverOver5 ==
  \A u \in Users :
    subscriptionTier(u) = "free" =>
      recordingCount(recordings, u) <= FREE_TIER_MAX_RECORDINGS

(***************************************************************************)
(* The extension: the service worker (coordinator), the offscreen document *)
(* (sources, recorder) and the popup (UI), with the messages between them. *)
(***************************************************************************)
\* chrome.runtime.sendMessage of the popup: the request takes the lowest free slot
ReqSlotFree(r) == reqs[r] = None /\ \A q \in ReqSlots : q < r => reqs[q] # None
NewReq(type, opts) ==
  [type |-> type, stage |-> "sw", opts |-> opts, orphan |-> FALSE,
   ok |-> TRUE, data |-> None]
At(r, type, stage) ==
  reqs[r] # None /\ reqs[r].type = type /\ reqs[r].stage = stage
Move(r, stage) == reqs' = [reqs EXCEPT ![r].stage = stage]
Answer(r, stage, ok, data) ==
  reqs' = [reqs EXCEPT ![r].stage = stage, ![r].ok = ok, ![r].data = data]

(***************************************************************************)
(* Service worker                                                          *)
(***************************************************************************)
\* sendToOffscreen: createOffscreenDocument, then the message to the document
sendToOffscreen(r) ==
  /\ reqs[r] # None /\ reqs[r].stage = "sw"
  /\ docExists' = TRUE
  /\ Move(r, "os")
  /\ UNCHANGED <<recordingState, swEpoch, mediaRecorder, recordedChunks, screenStream,
                 webcamStream, micStream, live, orphans, timeline, toSw, toUi, ui, clock,
                 serverVars, up, appVars, compVars>>

\* onMessage: SCREEN_SHARE_ENDED and RECORDING_ERROR
swOnOffscreenMessage ==
  \E m \in toSw :
    /\ toSw' = toSw \ {m}
    /\ recordingState' = [recordingState EXCEPT !.isRecording = FALSE]
    /\ UNCHANGED <<swEpoch, osVars, reqs, toUi, ui, clock,
                 serverVars, up, appVars>>

\* handleStartRecording after the document answered
handleStartRecording(r) ==
  /\ At(r, "START_RECORDING", "sw_resp")
  /\ IF reqs[r].ok
       THEN recordingState' = [isRecording |-> TRUE, isPaused |-> FALSE,
                               startTime |-> <<clock>>]
       ELSE UNCHANGED recordingState
  /\ Move(r, "ui_resp")
  /\ UNCHANGED <<swEpoch, osVars, toSw, toUi, ui, clock,
                 serverVars, up, appVars>>

\* handleStopRecording: Math.floor((Date.now() - recordingState.startTime) / 1000),
\* in seconds; a startTime of null counts as 0
Duration(t, state) ==
  t - (IF state.startTime = Null THEN 0 ELSE state.startTime[1])

\* response.data.duration = duration
WithDuration(data, duration) ==
  [f \in DOMAIN data \cup {"duration"} |-> IF f = "duration" THEN duration ELSE data[f]]

\* handleStopRecording after the document answered, up to closeOffscreenDocument:
\* a successful response with data gets the duration; the listener answers
\* { success: true, data: <the document's whole response> }
handleStopRecording(r) ==
  /\ At(r, "STOP_RECORDING", "sw_resp")
  /\ recordingState' = [recordingState EXCEPT !.isRecording = FALSE, !.isPaused = FALSE]
  /\ Answer(r, "sw_close", TRUE,
            [success |-> reqs[r].ok,
             data |-> IF reqs[r].ok /\ reqs[r].data # None
                        THEN WithDuration(reqs[r].data,
                                          Duration(clock, recordingState))
                        ELSE reqs[r].data])
  /\ UNCHANGED <<swEpoch, osVars, toSw, toUi, ui, clock,
                 serverVars, up, appVars>>

\* closeOffscreenDocument that answers without closing the document
DocumentLeftOpen(r) ==
  /\ At(r, "STOP_RECORDING", "sw_close")
  /\ Move(r, "ui_resp")
  /\ UNCHANGED <<recordingState, swEpoch, osVars, toSw, toUi, ui, clock,
                 serverVars, up, appVars>>

\* closeOffscreenDocument: the document goes with its recorder and its
\* captures; a request the document had not answered fails
closeOffscreenDocument(r) ==
  /\ At(r, "STOP_RECORDING", "sw_close")
  /\ docExists' = FALSE
  /\ mediaRecorder' = "null"
  /\ recordedChunks' = <<>>
  /\ screenStream' = "null"
  /\ webcamStream' = "null"
  /\ micStream' = "null"
  /\ live' = NoLive
  /\ orphans' = 0
  /\ timeline' = NoTimeline
  /\ compositorRunning' = FALSE
  /\ animationId' = "null"
  /\ frames' = 0
  /\ toSw' = toSw
  /\ reqs' = [q \in ReqSlots |->
       IF q = r THEN [reqs[r] EXCEPT !.stage = "ui_resp"]
       ELSE IF reqs[q] # None /\ reqs[q].stage \notin {"sw", "sw_resp", "sw_close", "ui_resp"}
         THEN [reqs[q] EXCEPT !.stage = "sw_resp", !.ok = FALSE, !.data = None]
       ELSE reqs[q]]
  /\ UNCHANGED <<recordingState, swEpoch, toUi, ui, clock,
                 serverVars, up, appVars>>

\* handlePauseRecording / handleResumeRecording after the document answered
handlePauseRecording(r) ==
  /\ At(r, "PAUSE_RECORDING", "sw_resp")
  /\ IF reqs[r].ok
       THEN recordingState' = [recordingState EXCEPT !.isPaused = TRUE]
       ELSE UNCHANGED recordingState
  /\ Move(r, "ui_resp")
  /\ UNCHANGED <<swEpoch, osVars, toSw, toUi, ui, clock,
                 serverVars, up, appVars>>

handleResumeRecording(r) ==
  /\ At(r, "RESUME_RECORDING", "sw_resp")
  /\ IF reqs[r].ok
       THEN recordingState' = [recordingState EXCEPT !.isPaused = FALSE]
       ELSE UNCHANGED recordingState
  /\ Move(r, "ui_resp")
  /\ UNCHANGED <<swEpoch, osVars, toSw, toUi, ui, clock,
                 serverVars, up, appVars>>

\* the browser stops the idle service worker; its next start runs the script
\* again, which sets recordingState to its initial value
swRestart ==
  /\ \A r \in ReqSlots : reqs[r] = None
  /\ toSw = {}
  /\ swEpoch < MaxRestarts
  /\ swEpoch' = swEpoch + 1
  /\ recordingState' = InitialRecordingState
  /\ UNCHANGED <<osVars, reqs, toSw, toUi, ui, clock,
                 serverVars, up, appVars>>

(***************************************************************************)
(* Offscreen document                                                      *)
(***************************************************************************)
swUnchanged == UNCHANGED <<recordingState, swEpoch, toUi, ui, clock, serverVars, up, appVars>>

\* startRecording up to the first await: recordedChunks = [], getDisplayMedia
startRecording_begin(r) ==
  /\ At(r, "START_RECORDING", "os")
  /\ recordedChunks' = <<>>
  /\ Move(r, "os_screen")
  /\ UNCHANGED <<docExists, mediaRecorder, screenStream, webcamStream, micStream,
                 live, orphans, timeline, toSw>>
  /\ swUnchanged
  /\ UNCHANGED compVars

\* getDisplayMedia resolves (the new capture takes the variable) or rejects
startRecording_screen(r) ==
  /\ At(r, "START_RECORDING", "os_screen")
  /\ \/ /\ screenStream' = "live"
        /\ live' = live + 1
        /\ Move(r, "os_webcam")
     \/ /\ UNCHANGED <<screenStream, live>>
        /\ Answer(r, "sw_resp", FALSE, None)
  /\ UNCHANGED <<docExists, mediaRecorder, recordedChunks, webcamStream, micStream,
                 orphans, timeline, toSw>>
  /\ swUnchanged
  /\ UNCHANGED compVars

WebcamFailureFatal(r) == Answer(r, "sw_resp", FALSE, None)
\* catch (e): console.warn, finalStream = screenStream
webcamNotAvailable(r) == Move(r, "os_mic")

\* setupCompositor, once both videos play: compositorRunning = true, and
\* composite() draws and asks for the next frame
setupCompositor ==
  /\ compositorRunning' = TRUE
  /\ animationId' = "set"
  /\ frames' = frames + 1

\* getUserMedia for the webcam, when asked for, and setupCompositor: a failure
\* of either is only logged
startRecording_webcam(r) ==
  /\ At(r, "START_RECORDING", "os_webcam")
  /\ \/ /\ reqs[r].opts.includeWebcam
        /\ frames < MaxFrames
        /\ webcamStream' = "live"
        /\ setupCompositor
        /\ Move(r, "os_mic")
     \/ /\ reqs[r].opts.includeWebcam
        /\ \/ UNCHANGED webcamStream
           \/ webcamStream' = "live"
        /\ UNCHANGED compVars
        /\ webcamNotAvailable(r)
     \/ /\ ~reqs[r].opts.includeWebcam
        /\ UNCHANGED webcamStream
        /\ UNCHANGED compVars
        /\ Move(r, "os_mic")
  /\ UNCHANGED <<docExists, mediaRecorder, recordedChunks, screenStream, micStream,
                 live, orphans, timeline, toSw>>
  /\ swUnchanged

\* getUserMedia for the microphone, when asked for: a failure is only logged
startRecording_mic(r) ==
  /\ At(r, "START_RECORDING", "os_mic")
  /\ \/ /\ reqs[r].opts.includeMic
        /\ micStream' = "live"
     \/ UNCHANGED micStream
  /\ Move(r, "os_recorder")
  /\ UNCHANGED <<docExists, mediaRecorder, recordedChunks, screenStream, webcamStream,
                 live, orphans, timeline, toSw>>
  /\ swUnchanged
  /\ UNCHANGED compVars

\* new MediaRecorder(...) takes the variable and starts, or throws; a recorder
\* that was capturing goes on capturing without a variable that holds it
startRecording_recorder(r) ==
  /\ At(r, "START_RECORDING", "os_recorder")
  /\ \/ /\ mediaRecorder' = "recording"
        /\ orphans' = IF RecorderActive THEN orphans + 1 ELSE orphans
        /\ timeline' = NoTimeline
        /\ Answer(r, "sw_resp", TRUE, [status |-> "recording"])
     \/ /\ UNCHANGED <<mediaRecorder, orphans, timeline>>
        /\ Answer(r, "sw_resp", FALSE, None)
  /\ UNCHANGED <<docExists, recordedChunks, screenStream, webcamStream, micStream,
                 live, toSw>>
  /\ swUnchanged
  /\ UNCHANGED compVars

\* event.data of the k-th dataavailable event with data
Chunk(k) == <<k>>

\* recordedChunks.push(event.data)
push(chunks) == Append(chunks, Chunk(Len(chunks) + 1))

\* ondataavailable with data: every second while a recorder captures (at most
\* maxChunks chunks are collected)
dataavailable(maxChunks) ==
  /\ mediaRecorder = "recording" \/ orphans > 0
  /\ Len(recordedChunks) < maxChunks
  /\ recordedChunks' = push(recordedChunks)
  /\ UNCHANGED <<docExists, mediaRecorder, screenStream, webcamStream, micStream,
                 live, orphans, timeline, reqs, toSw>>
  /\ swUnchanged
  /\ UNCHANGED compVars

ondataavailable == dataavailable(MaxChunks)

\* onerror of the recorder: it stops, RECORDING_ERROR goes to the service worker
onerror ==
  /\ RecorderActive
  /\ mediaRecorder' = "inactive"
  /\ toSw' = toSw \cup {"RECORDING_ERROR"}
  /\ UNCHANGED <<docExists, recordedChunks, screenStream, webcamStream, micStream,
                 live, orphans, timeline, reqs>>
  /\ swUnchanged
  /\ UNCHANGED compVars

\* onended of the screen track: the user stops sharing; SCREEN_SHARE_ENDED goes
\* to the service worker and to the popup, if there is one
onended ==
  /\ screenStream = "live"
  /\ screenStream' = "ended"
  /\ live' = live - 1
  /\ toSw' = toSw \cup {"SCREEN_SHARE_ENDED"}
  /\ toUi' = ui.open
  /\ UNCHANGED <<docExists, mediaRecorder, recordedChunks, webcamStream, micStream,
                 orphans, timeline, reqs>>
  /\ UNCHANGED <<recordingState, swEpoch, ui, clock, serverVars, up, appVars, compVars>>

\* (the answer is { success: true }; the request keeps, for the claims, the
\* state the recorder was in)
pauseRecording(r) ==
  /\ At(r, "PAUSE_RECORDING", "os")
  /\ mediaRecorder' = IF mediaRecorder = "recording" THEN "paused" ELSE mediaRecorder
  /\ timeline' = IF mediaRecorder = "recording" /\ timeline.pauses < MaxPauses
                   THEN [timeline EXCEPT !.pauses = @ + 1]
                   ELSE timeline
  /\ Answer(r, "sw_resp", TRUE, [recorderWas |-> mediaRecorder])
  /\ UNCHANGED <<docExists, recordedChunks, screenStream, webcamStream, micStream,
                 live, orphans, toSw>>
  /\ swUnchanged
  /\ UNCHANGED compVars

resumeRecording(r) ==
  /\ At(r, "RESUME_RECORDING", "os")
  /\ mediaRecorder' = IF mediaRecorder = "paused" THEN "recording" ELSE mediaRecorder
  /\ Answer(r, "sw_resp", TRUE, [recorderWas |-> mediaRecorder])
  /\ UNCHANGED <<docExists, recordedChunks, screenStream, webcamStream, micStream,
                 live, orphans, timeline, toSw>>
  /\ swUnchanged
  /\ UNCHANGED compVars

\* cleanup(): the tracks of the captures the variables hold are stopped
cleanup ==
  /\ live' = IF screenStream = "live" THEN live - 1 ELSE live
  /\ screenStream' = "null"
  /\ webcamStream' = "null"
  /\ micStream' = "null"
  /\ mediaRecorder' = "null"
  /\ recordedChunks' = <<>>
  /\ timeline' = NoTimeline

RECURSIVE Blob(_)
BlobReversed(chunks) ==
  IF chunks = <<>> THEN <<>> ELSE Blob(Tail(chunks)) \o Head(chunks)
\* new Blob(chunks): the chunks one after the other
Blob(chunks) ==
  IF chunks = <<>> THEN <<>> ELSE Head(chunks) \o Blob(Tail(chunks))

\* blob.size
BlobSize(chunks) == Len(Blob(chunks))

\* stopRecording: no recorder; a recorder that is not inactive (requestData,
\* stop); a recorder that is inactive already
stopRecording_begin(r) ==
  /\ At(r, "STOP_RECORDING", "os")
  /\ IF mediaRecorder = "null"
       THEN /\ Answer(r, "sw_resp", FALSE, None)
            /\ UNCHANGED <<mediaRecorder, recordedChunks, screenStream, webcamStream,
                           micStream, live, timeline>>
       ELSE IF mediaRecorder # "inactive"
         THEN /\ mediaRecorder' = "inactive"
              /\ Move(r, "os_flush")
              /\ UNCHANGED <<recordedChunks, screenStream, webcamStream, micStream, live,
                             timeline>>
         ELSE /\ Answer(r, "sw_resp", TRUE,
                        [blobSize |-> BlobSize(recordedChunks), chunksCount |-> 0,
                         recorded |-> timeline.recorded])
              /\ cleanup
  /\ UNCHANGED <<docExists, orphans, toSw>>
  /\ swUnchanged
  /\ UNCHANGED compVars

\* the dataavailable event of requestData/stop: what the encoder had buffered,
\* if anything
stopRecording_dataavailable(r, maxChunks) ==
  /\ At(r, "STOP_RECORDING", "os_flush")
  /\ \/ /\ Len(recordedChunks) < maxChunks
        /\ recordedChunks' = push(recordedChunks)
     \/ UNCHANGED recordedChunks
  /\ Move(r, "os_onstop")
  /\ UNCHANGED <<docExists, mediaRecorder, screenStream, webcamStream, micStream,
                 live, orphans, timeline, toSw>>
  /\ swUnchanged
  /\ UNCHANGED compVars

stopRecording_flush(r) == stopRecording_dataavailable(r, MaxChunks)

\* onstop: compositorRunning = false; cancelAnimationFrame(animationId) takes
\* away the callback that was asked for last
stopCompositor ==
  /\ compositorRunning' = FALSE
  /\ frames' = IF animationId # "null" /\ frames > 0 THEN frames - 1 ELSE frames
  /\ animationId' = "null"

\* mediaRecorder.onstop: the compositor is stopped, the Blob, blobData,
\* cleanup(), resolve
\* (recorded is not a field of the message: the seconds the recorder recorded)
stopRecording_onstop(r) ==
  /\ At(r, "STOP_RECORDING", "os_onstop")
  /\ stopCompositor
  /\ Answer(r, "sw_resp", TRUE,
            [blobSize |-> BlobSize(recordedChunks), chunksCount |-> 0,
             blobData |-> Blob(recordedChunks), recorded |-> timeline.recorded])
  /\ cleanup
  /\ UNCHANGED <<docExists, orphans, toSw>>
  /\ swUnchanged

\* a pending callback of requestAnimationFrame runs composite(): while
\* compositorRunning it draws and asks for the next frame, which changes
\* nothing here; otherwise it returns
composite ==
  /\ frames > 0 /\ ~compositorRunning
  /\ frames' = frames - 1
  /\ UNCHANGED <<compositorRunning, animationId>>
  /\ UNCHANGED <<docExists, mediaRecorder, recordedChunks, screenStream, webcamStream,
                 micStream, live, orphans, timeline, reqs, toSw>>
  /\ swUnchanged

(***************************************************************************)
(* Popup (ViblyPopup)                                                      *)
(***************************************************************************)
StartOptions ==
  {[includeWebcam |-> FALSE, includeMic |-> FALSE],
   [includeWebcam |-> FALSE, includeMic |-> TRUE],
   [includeWebcam |-> TRUE, includeMic |-> TRUE]}

\* START_RECORDING requests that have not yet reached new MediaRecorder
StartsInFlight ==
  Cardinality({r \in ReqSlots : reqs[r] # None /\ reqs[r].type = "START_RECORDING"
                                 /\ reqs[r].stage \in {"sw", "os", "os_screen",
                                                       "os_webcam", "os_mic", "os_recorder"}})

\* the popup's timer methods; Date.now() is t
startTimer(u, t) == [u EXCEPT !.startTime = <<t>>, !.timerInterval = "running"]
pauseTimer(u) ==
  IF u.timerInterval # "null"
    THEN [u EXCEPT !.timerInterval = "cleared", !.pausedTime = u.elapsedSeconds]
    ELSE u
resumeTimerKeepsStart(u, t) == [u EXCEPT !.timerInterval = "running"]
resumeTimer(u, t) == [u EXCEPT !.startTime = <<t>>, !.timerInterval = "running"]
stopTimer(u) ==
  IF u.timerInterval # "null" THEN [u EXCEPT !.timerInterval = "null"] ELSE u
resumeTimerFromState(u) ==
  IF u.startTime # Null THEN [u EXCEPT !.timerInterval = "running"] ELSE u
\* what the callbacks of setInterval compute (pausedTime is 0 in the callback
\* of resumeTimerFromState, which does not add it)
TimerElapsed(u, t) == (t - u.startTime[1]) + u.pausedTime

uiUnchanged == UNCHANGED <<recordingState, swEpoch, osVars, toSw, clock, serverVars, up, appVars>>

\* the user opens the popup: a new ViblyPopup
UiOpen ==
  /\ ~ui.open
  /\ ui' = NewUi
  /\ UNCHANGED <<reqs, toUi>>
  /\ uiUnchanged

\* checkState: GET_STATE, answered by the service worker from recordingState
checkState ==
  /\ ui.open /\ ui.state = "init"
  /\ ui' = IF recordingState.isRecording
             THEN resumeTimerFromState([ui EXCEPT !.state = "recording",
                                                  !.startTime = recordingState.startTime])
             ELSE [ui EXCEPT !.state = "idle"]
  /\ UNCHANGED <<reqs, toUi>>
  /\ uiUnchanged

\* the user closes the popup: nobody is left to receive what was on its way to it
UiClose ==
  /\ ui.open
  /\ ui' = ClosedUi
  /\ toUi' = FALSE
  /\ reqs' = [r \in ReqSlots |->
                IF reqs[r] = None THEN None ELSE [reqs[r] EXCEPT !.orphan = TRUE]]
  /\ uiUnchanged

\* a response for a popup that is gone
UiDropResponse(r) ==
  /\ reqs[r] # None /\ reqs[r].stage = "ui_resp" /\ reqs[r].orphan
  /\ reqs' = [reqs EXCEPT ![r] = None]
  /\ UNCHANGED <<ui, toUi>>
  /\ uiUnchanged

\* startRecording up to the await
UiStartRecording(r, maxLive) ==
  /\ ui.open /\ ui.state = "idle"
  /\ ReqSlotFree(r)
  /\ live + StartsInFlight < maxLive
  /\ orphans + StartsInFlight < maxLive
  /\ \E opts \in StartOptions :
       reqs' = [reqs EXCEPT ![r] = NewReq("START_RECORDING", opts)]
  /\ UNCHANGED <<ui, toUi>>
  /\ uiUnchanged

\* startRecording after the await
UiStartResponse(r) ==
  /\ At(r, "START_RECORDING", "ui_resp") /\ ~reqs[r].orphan
  /\ ui' = IF reqs[r].ok
             THEN startTimer([ui EXCEPT !.state = "recording"], clock)
             ELSE [ui EXCEPT !.state = "error"]
  /\ reqs' = [reqs EXCEPT ![r] = None]
  /\ UNCHANGED toUi
  /\ uiUnchanged

\* stopRecording up to the await
UiStopRecording(r) ==
  /\ ui.open /\ ui.state = "recording"
  /\ ReqSlotFree(r)
  /\ ui' = stopTimer([ui EXCEPT !.state = "processing"])
  /\ reqs' = [reqs EXCEPT ![r] = NewReq("STOP_RECORDING", None)]
  /\ UNCHANGED toUi
  /\ uiUnchanged

\* what the popup reads as response.data.blobData and response.data.blobSize
HasBlob(response) ==
  /\ "blobData" \in DOMAIN response.data
  /\ "blobSize" \in DOMAIN response.data
  /\ response.data.blobSize # 0

\* stopRecording after the await (the upload is left out: 'complete')
UiStopResponse(r) ==
  /\ At(r, "STOP_RECORDING", "ui_resp") /\ ~reqs[r].orphan
  /\ ui' = [ui EXCEPT !.state =
              IF reqs[r].ok /\ HasBlob(reqs[r]) THEN "complete" ELSE "error"]
  /\ reqs' = [reqs EXCEPT ![r] = None]
  /\ UNCHANGED toUi
  /\ uiUnchanged

\* togglePause up to the await: the button's text chooses the message
togglePause(r) ==
  /\ ui.open /\ ui.state = "recording"
  /\ ReqSlotFree(r)
  /\ \A q \in ReqSlots :
       IF reqs[q] = None THEN TRUE
       ELSE reqs[q].type \notin {"PAUSE_RECORDING", "RESUME_RECORDING"}
  /\ reqs' = [reqs EXCEPT ![r] =
                NewReq(IF ui.paused THEN "RESUME_RECORDING" ELSE "PAUSE_RECORDING", None)]
  /\ UNCHANGED <<ui, toUi>>
  /\ uiUnchanged

\* togglePause after the await: the response is not looked at
UiPauseResponse(r) ==
  /\ reqs[r] # None /\ reqs[r].stage = "ui_resp" /\ ~reqs[r].orphan
  /\ reqs[r].type \in {"PAUSE_RECORDING", "RESUME_RECORDING"}
  /\ ui' = IF reqs[r].type = "PAUSE_RECORDING"
             THEN pauseTimer([ui EXCEPT !.paused = TRUE])
             ELSE resumeTimer([ui EXCEPT !.paused = FALSE], clock)
  /\ reqs' = [reqs EXCEPT ![r] = None]
  /\ UNCHANGED toUi
  /\ uiUnchanged

\* handleScreenShareEnded: stopRecording, if the popup shows a recording
handleScreenShareEnded(r) ==
  /\ ui.open /\ toUi
  /\ toUi' = FALSE
  /\ IF ui.state = "recording"
       THEN /\ ReqSlotFree(r)
            /\ ui' = stopTimer([ui EXCEPT !.state = "processing"])
            /\ reqs' = [reqs EXCEPT ![r] = NewReq("STOP_RECORDING", None)]
       ELSE /\ r = 1
            /\ UNCHANGED <<ui, reqs>>
  /\ uiUnchanged

\* reset: 'New recording' and 'Try again'
reset ==
  /\ ui.open /\ ui.state \in {"error", "complete"}
  /\ ui' = [ui EXCEPT !.state = "idle", !.paused = FALSE, !.elapsedSeconds = 0,
                       !.pausedTime = 0]
  /\ UNCHANGED <<reqs, toUi>>
  /\ uiUnchanged

\* the callback of setInterval: the elapsed seconds, and stopRecording() at
\* MAX_RECORDING_DURATION
timerCallback(r) ==
  /\ ui.open /\ ui.timerInterval = "due"
  /\ LET elapsed == TimerElapsed(ui, clock)
         u == [ui EXCEPT !.elapsedSeconds = elapsed, !.timerInterval = "running"]
     IN IF elapsed >= MAX_RECORDING_DURATION /\ u.state = "recording"
          THEN /\ ReqSlotFree(r)
               /\ ui' = stopTimer([u EXCEPT !.state = "processing"])
               /\ reqs' = [reqs EXCEPT ![r] = NewReq("STOP_RECORDING", None)]
          ELSE /\ r = 1
               /\ ui' = u
               /\ UNCHANGED reqs
  /\ UNCHANGED toUi
  /\ uiUnchanged

\* d seconds pass: a recorder that is recording records them, and the callback
\* of a running interval becomes due (it runs before more time passes)
ClockAdvance(d) ==
  /\ ui.timerInterval # "due"
  /\ clock' = clock + d
  /\ timeline' = IF mediaRecorder = "recording"
                   THEN [timeline EXCEPT !.recorded = @ + d]
                   ELSE timeline
  /\ ui' = IF ui.timerInterval = "running" THEN [ui EXCEPT !.timerInterval = "due"] ELSE ui
  /\ UNCHANGED <<recordingState, swEpoch, docExists, mediaRecorder, recordedChunks,
                 screenStream, webcamStream, micStream, live, orphans, reqs, toSw,
                 toUi, serverVars, up, appVars, compVars>>

\* requests and messages are handled in much less than a second
NothingInFlight ==
  /\ \A r \in ReqSlots : reqs[r] = None
  /\ toSw = {}
  /\ ~toUi

\* Date.now() moves on, by one of the steps, up to maxClock
ExtTick(steps, maxClock) ==
  /\ NothingInFlight
  /\ \E d \in steps :
       /\ clock + d <= maxClock
       /\ ClockAdvance(d)

(***************************************************************************)
(* The extension's specification                                           *)
(***************************************************************************)
\* the service worker and the offscreen document handle a request of the popup
ExtRequestStep ==
  \E r \in ReqSlots :
       \/ sendToOffscreen(r)
       \/ handleStartRecording(r)
       \/ handleStopRecording(r)
       \/ closeOffscreenDocument(r)
       \/ handlePauseRecording(r)
       \/ handleResumeRecording(r)
       \/ startRecording_begin(r)
       \/ startRecording_screen(r)
       \/ startRecording_webcam(r)
       \/ startRecording_mic(r)
       \/ startRecording_recorder(r)
       \/ pauseRecording(r)
       \/ resumeRecording(r)
       \/ stopRecording_begin(r)
       \/ stopRecording_flush(r)
       \/ stopRecording_onstop(r)

\* steps of the service worker and of the offscreen document
ExtSystemStep == swOnOffscreenMessage \/ ExtRequestStep

\* the popup's code after GET_STATE and after the response to a request
ExtUiResponseStep ==
  \/ checkState
  \/ \E r \in ReqSlots :
       \/ UiStartResponse(r)
       \/ UiStopResponse(r)
       \/ UiPauseResponse(r)

\* steps of the popup's code
ExtUiStep ==
  \/ ExtUiResponseStep
  \/ \E r \in ReqSlots :
       \/ UiDropResponse(r)
       \/ handleScreenShareEnded(r)

\* what the user, the browser and the recorder do
ExtEnvStep(maxLive) ==
  \/ UiOpen
  \/ UiClose
  \/ reset
  \/ \E r \in ReqSlots :
       \/ UiStartRecording(r, maxLive)
       \/ UiStopRecording(r)
       \/ togglePause(r)
  \/ ondataavailable
  \/ onerror
  \/ onended
  \/ composite

\* the extension while its service worker stays in memory
ExtNext == ExtSystemStep \/ ExtUiStep \/ ExtEnvStep(MaxLive)

ExtSpec == ServerInit /\ [][ExtNext]_vars

\* one popup that stays open while the seconds pass: start, pause, resume,
\* stop and the popup's timer
TimerNext ==
  \/ ExtRequestStep
  \/ ExtUiResponseStep
  \/ UiOpen
  \/ reset
  \/ \E r \in ReqSlots :
       \/ UiStartRecording(r, RestartLive)
       \/ UiStopRecording(r)
       \/ togglePause(r)
       \/ timerCallback(r)
  \/ ExtTick({1}, MaxClock)

TimerSpec == ServerInit /\ [][TimerNext]_vars

\* a recording that goes on for MAX_RECORDING_DURATION, with a popup that may
\* be closed and opened again
AutoStopNext ==
  \/ ExtSystemStep
  \/ ExtUiStep
  \/ UiOpen
  \/ UiClose
  \/ reset
  \/ \E r \in ReqSlots :
       \/ UiStartRecording(r, RestartLive)
       \/ UiStopRecording(r)
       \/ togglePause(r)
       \/ timerCallback(r)
  \/ onended
  \/ ExtTick({MAX_RECORDING_DURATION}, MAX_RECORDING_DURATION)

AutoStopSpec == ServerInit /\ [][AutoStopNext]_vars

\* the handlers and the callbacks of the timer run
AutoStopFairSpec ==
  AutoStopSpec /\ WF_vars(ExtSystemStep) /\ WF_vars(ExtUiStep)
               /\ WF_vars(\E r \in ReqSlots : timerCallback(r))

\* the extension with a service worker that the browser may stop and start again
RestartNext ==
  \/ ExtSystemStep
  \/ ExtUiStep
  \/ ExtEnvStep(RestartLive)
  \/ swRestart

RestartSpec == ServerInit /\ [][RestartNext]_vars

\* one recording after the other, each with up to StopChunks chunks, with a
\* recorder that may fail and a screen share that may end, and a popup that
\* stays open
StopChunks == 2

StopNext ==
  \/ UiOpen
  \/ checkState
  \/ reset
  \/ swOnOffscreenMessage
  \/ \E r \in ReqSlots :
       \/ UiStartRecording(r, RestartLive)
       \/ UiStartResponse(r)
       \/ UiStopRecording(r)
       \/ UiStopResponse(r)
       \/ handleScreenShareEnded(r)
       \/ sendToOffscreen(r)
       \/ handleStartRecording(r)
       \/ handleStopRecording(r)
       \/ closeOffscreenDocument(r)
       \/ startRecording_begin(r)
       \/ startRecording_screen(r)
       \/ startRecording_webcam(r)
       \/ startRecording_mic(r)
       \/ startRecording_recorder(r)
       \/ stopRecording_begin(r)
       \/ stopRecording_dataavailable(r, StopChunks)
       \/ stopRecording_onstop(r)
  \/ dataavailable(StopChunks)
  \/ onerror
  \/ onended
  \/ composite

StopSpec == ServerInit /\ [][StopNext]_vars

\* the service worker, the offscreen document and an open popup run the
\* handlers of the messages that reached them
ExtFairSpec == ExtSpec /\ WF_vars(ExtSystemStep) /\ WF_vars(ExtUiStep)

(***************************************************************************)
(* Claims about the extension                                              *)
(***************************************************************************)
\* every source handle is released and the recorder is gone
Released ==
  /\ mediaRecorder = "null"
  /\ screenStream = "null"
  /\ webcamStream = "null"
  /\ micStream = "null"

\* C8: while the recorder of the offscreen document is recording or paused,
\* no step replaces it by another recorder (leaving the first one capturing
\* without a variable that holds it), none discards chunks already collected
\* and none acquires another screen capture on top of the first.
C8_StartWhileActiveNotLayered ==
  [][RecorderActive =>
       /\ orphans' = orphans
       /\ live' <= live
       /\ Len(recordedChunks') >= Len(recordedChunks)]_vars

\* C9: when the user stops sharing the screen during a recording (the recorder
\* is recording or paused and recordingState says isRecording), the recording
\* is eventually stopped as by a stop request: the recorder is gone and every
\* source handle is released, with or without a popup.
C9_ScreenShareEndStopsRecording ==
  (screenStream = "ended" /\ RecorderActive /\ recordingState.isRecording) ~> Released

\* C10: a restart of the service worker while the recorder is capturing and
\* recordingState says so leaves isRecording true and startTime as it was.
C10_StateSurvivesRestart ==
  [][(swEpoch' # swEpoch /\ RecorderActive /\ recordingState.isRecording) =>
       /\ recordingState'.isRecording
       /\ recordingState'.startTime = recordingState.startTime]_vars

\* C11: a popup that attaches while recordingState says isRecording shows
\* 'recording', shows paused exactly if isPaused, and takes its timer's
\* startTime from recordingState; it shows 'recording' only if isRecording;
\* closing the popup changes neither recordingState nor the recorder nor the
\* chunks.
C11_AttachedUiMatchesCoordinator ==
  [][/\ (ui.open /\ ui.state = "init" /\ ui'.open /\ ui'.state # "init") =>
          /\ (ui'.state = "recording") <=> recordingState.isRecording
          /\ recordingState.isRecording =>
               /\ ui'.paused <=> recordingState.isPaused
               /\ ui'.startTime = recordingState.startTime
     /\ (ui.open /\ ~ui'.open) =>
          UNCHANGED <<recordingState, mediaRecorder, recordedChunks>>]_vars

\* C16: when the popup gets the coordinator's answer to its stop request on
\* an active recording, it goes on to success ('complete', upload left out)
\* if and only if the artifact the recorder finalized has a size other than
\* 0, and shows the error 'no data captured' only for an empty artifact.
C16_StopOutcomeBySize ==
  [][\A r \in ReqSlots :
       (/\ At(r, "STOP_RECORDING", "ui_resp") /\ ~reqs[r].orphan
        /\ reqs'[r] = None
        /\ reqs[r].ok /\ reqs[r].data.success) =>
         (ui'.state = "complete" <=> reqs[r].data.data.blobSize > 0)]_vars

\* C17: a recorder that has recorded MAX_RECORDING_DURATION seconds (paused
\* intervals not counted) and is still recording eventually stops recording,
\* with the popup open or closed and without the user stopping it.
C17_AutoStopAtCeiling ==
  (mediaRecorder = "recording" /\ timeline.recorded >= MAX_RECORDING_DURATION)
    ~> (mediaRecorder # "recording")

C19_PauseResumeIdempotent ==
  [][\A r \in ReqSlots :
       /\ (At(r, "PAUSE_RECORDING", "os") /\ ~At(r, "PAUSE_RECORDING", "os")') =>
            /\ recordedChunks' = recordedChunks
            /\ mediaRecorder # "recording" => mediaRecorder' = mediaRecorder
       /\ (At(r, "RESUME_RECORDING", "os") /\ ~At(r, "RESUME_RECORDING", "os")') =>
            /\ recordedChunks' = recordedChunks
            /\ mediaRecorder # "paused" => mediaRecorder' = mediaRecorder
       /\ (/\ At(r, "PAUSE_RECORDING", "sw_resp") /\ ~At(r, "PAUSE_RECORDING", "sw_resp")'
           /\ reqs[r].ok /\ reqs[r].data.recorderWas # "recording") =>
            recordingState' = recordingState
       /\ (/\ At(r, "RESUME_RECORDING", "sw_resp") /\ ~At(r, "RESUME_RECORDING", "sw_resp")'
           /\ reqs[r].ok /\ reqs[r].data.recorderWas # "paused") =>
            recordingState' = recordingState]_vars

\* C20: end to end, first half: when the recorder of a recording with screen
\* and microphone and no webcam, which has collected a chunk, is finalized for
\* the stop request of an open popup, then the artifact reaches the popup,
\* which goes on to 'complete' (upload left out), unless the popup is closed.
C20_StopDeliversArtifact ==
  (\E r \in ReqSlots :
     /\ At(r, "STOP_RECORDING", "os_onstop") /\ ~reqs[r].orphan
     /\ webcamStream = "null" /\ micStream = "live"
     /\ recordedChunks # <<>>
     /\ ui.open /\ ui.state = "processing")
    ~> (ui.state = "complete" \/ ~ui.open)

\* C24: a start whose screen capture is refused fails as a whole: the
\* document answers with a failure without making a recorder, and the
\* coordinator, which was not recording, is left not recording.  Whatever the
\* webcam's and the microphone's getUserMedia answer, the start goes on to
\* the next step, with the variable of a source that failed left as it was.
C24_OnlyScreenFailureIsFatal ==
  [][\A r \in ReqSlots :
       /\ (/\ At(r, "START_RECORDING", "os_screen")
           /\ ~At(r, "START_RECORDING", "os_screen")'
           /\ live' = live) =>
            /\ reqs'[r].stage = "sw_resp" /\ ~reqs'[r].ok
            /\ mediaRecorder' = mediaRecorder
       /\ (/\ At(r, "START_RECORDING", "sw_resp")
           /\ ~At(r, "START_RECORDING", "sw_resp")'
           /\ ~reqs[r].ok) =>
            /\ recordingState' = recordingState
            /\ reqs'[r].stage = "ui_resp" /\ ~reqs'[r].ok
       /\ (/\ At(r, "START_RECORDING", "os_webcam")
           /\ ~At(r, "START_RECORDING", "os_webcam")') =>
            /\ reqs'[r].stage = "os_mic"
            /\ webcamStream' \in {webcamStream, "live"}
       /\ (/\ At(r, "START_RECORDING", "os_mic")
           /\ ~At(r, "START_RECORDING", "os_mic")') =>
            /\ reqs'[r].stage = "os_recorder"
            /\ micStream' \in {micStream, "live"}]_vars

\* a recording with webcam and microphone asked for has started with neither
C24_Witness ==
  \E r \in ReqSlots :
    /\ At(r, "START_RECORDING", "ui_resp") /\ reqs[r].ok
    /\ reqs[r].opts.includeWebcam /\ reqs[r].opts.includeMic
    /\ screenStream = "live" /\ webcamStream = "null" /\ micStream = "null"
    /\ mediaRecorder = "recording" /\ recordingState.isRecording

\* the stage of request r changes
Leaves(r, type, stage) == At(r, type, stage) /\ ~At(r, type, stage)'

C35_CoordinatorStateConsistent ==
  /\ recordingState.isPaused => recordingState.isRecording
  /\ recordingState.isRecording => recordingState.startTime # Null

\* C39: the duration that handleStopRecording puts into the response of a
\* successful stop is the time the recorder recorded, pauses left out
C39_DurationExcludesPauses ==
  [][\A r \in ReqSlots :
       (/\ At(r, "STOP_RECORDING", "sw_resp") /\ At(r, "STOP_RECORDING", "sw_close")'
        /\ reqs[r].ok /\ reqs[r].data # None)
       => reqs'[r].data.data.duration = reqs[r].data.recorded]_vars

\* C37: when handleStartRecording reports a failed start and the service
\* worker's isRecording is false, no screen, webcam or microphone track of the
\* offscreen document is live
C37_FailedStartReleasesSources ==
  [][\A r \in ReqSlots :
       (/\ At(r, "START_RECORDING", "ui_resp")' /\ ~At(r, "START_RECORDING", "ui_resp")
        /\ ~reqs'[r].ok
        /\ ~recordingState'.isRecording)
       => /\ screenStream' # "live" /\ webcamStream' # "live" /\ micStream' # "live"
          /\ live' = NoLive]_vars

(***************************************************************************)
(* The uploader (lib/uploader.js): init, the parts one after the other,    *)
(* each with its retries, then complete.                                   *)
(***************************************************************************)
\* uploadPartWithRetry(part, presignedUrl, partNumber, maxRetries = 3)
maxRetries == 3

\* the number of parts whose count of PUT requests is kept
TriesKept == 3

totalPartsRoundedDown(size) == size \div PART_SIZE
\* Math.ceil(blob.size / PART_SIZE)
totalParts(size) == CeilDiv(size, PART_SIZE)

\* blob.slice(start, end) of the loop's i-th round
PartRangeWholeBlob(i, size) == [start |-> 0, end |-> size]
PartRange(i, size) ==
  [start |-> i * PART_SIZE,
   end |-> IF i * PART_SIZE + PART_SIZE < size THEN i * PART_SIZE + PART_SIZE ELSE size]

\* the ETag header as storage sends it, in quotes, and etag.replace(/"/g, '')
Quoted(token) == <<"quote", token, "quote">>
StripQuotes(header) == IF Len(header) = 3 THEN header[2] ELSE header

\* what fetch can give: a response with status 200 and the ETag header, one
\* without the header, one with another status, or a rejection
Responses(url) ==
  {[kind |-> "ok", ok |-> TRUE, etag |-> Quoted(ETagOf(url.uploadId, url.partNumber))],
   [kind |-> "noETag", ok |-> TRUE, etag |-> Null],
   [kind |-> "status", ok |-> FALSE, etag |-> Null],
   [kind |-> "networkError", ok |-> FALSE, etag |-> Null]}

\* the try block of uploadPartWithRetry returns
AttemptOkWithoutETag(response) == response.kind # "networkError" /\ response.ok
AttemptOk(response) ==
  response.kind # "networkError" /\ response.ok /\ response.etag # Null

backoffDelayFixed(attempt) == 1
\* Math.pow(2, attempt) * 1000 milliseconds, in seconds
backoffDelay(attempt) == 2 ^ attempt

\* the loop of upload awaits uploadPartWithRetry, which awaits fetch
FetchWithoutAwait(u) == u.phase \in {"put", "wait"} /\ u.i < u.totalParts
MayFetch(u) == u.phase = "put" /\ u.i < u.totalParts /\ u.inflight = 0

upUnchanged ==
  UNCHANGED <<serverVars, recordingState, swEpoch, osVars, reqs, toSw, toUi, ui, clock,
              appVars>>

\* upload(blob, duration, title) up to the await of apiClient.initRecording
uploadCalled(u, size) ==
  [u EXCEPT !.phase = "init", !.size = size, !.totalParts = totalParts(size)]

upload(sizes) ==
  /\ up.phase = "idle"
  /\ \E size \in sizes : up' = uploadCalled(up, size)
  /\ upUnchanged

\* the backend's answer to init: it throws (validation, quota, network), or
\* returns recordingId and one URL per part
upload_init ==
  /\ up.phase = "init"
  /\ \/ /\ InitDtoValid(InitDto(up.size))
        /\ \E id \in NewIds :
             up' = [up EXCEPT !.phase = "put", !.recordingId = id,
                              !.uploadUrls = getPresignedUploadUrls(id, up.totalParts),
                              !.i = 0, !.parts = <<>>, !.attempt = 0]
     \/ up' = [up EXCEPT !.phase = "failed"]
  /\ upUnchanged

\* uploadPartWithRetry: fetch(presignedUrl, { method: 'PUT', body: part })
uploadPart_fetch ==
  /\ MayFetch(up)
  /\ up' = [up EXCEPT !.phase = "wait",
                      !.request = [url |-> up.uploadUrls[up.i + 1],
                                   body |-> PartRange(up.i, up.size)],
                      !.inflight = @ + 1,
                      !.tries = @ + 1]
  /\ upUnchanged

\* the network: the request reaches the storage or not, the response comes
uploadPart_response ==
  /\ up.phase = "wait"
  /\ \E response \in Responses(up.request.url) :
       up' = [up EXCEPT !.phase = "response", !.response = response,
                        !.inflight = @ - 1,
                        !.stored = IF response.ok
                                     THEN @ \cup {[partNumber |-> up.request.url.partNumber,
                                                   body |-> up.request.body]}
                                     ELSE @]
  /\ upUnchanged

\* uploadPartWithRetry after the await: return the ETag, or catch, and then
\* wait and try again, or throw lastError; upload pushes the part it got
uploadPart_then ==
  /\ up.phase = "response"
  /\ IF AttemptOk(up.response)
       THEN up' = [up EXCEPT !.phase = "put",
                            !.parts = Append(@, [partNumber |-> up.i + 1,
                                                 etag |-> StripQuotes(up.response.etag)]),
                            !.i = @ + 1, !.attempt = 0, !.tries = 0, !.delays = <<>>,
                            !.triesOf = IF Len(@) < TriesKept THEN Append(@, up.tries) ELSE @,
                            !.request = None, !.response = None]
       ELSE IF up.attempt < maxRetries - 1
         THEN up' = [up EXCEPT !.phase = "backoff", !.response = None,
                              !.delays = Append(@, backoffDelay(up.attempt))]
         ELSE up' = [up EXCEPT !.phase = "failed", !.response = None]
  /\ upUnchanged

\* the delay is over: the next round of the loop of uploadPartWithRetry
uploadPart_backoff ==
  /\ up.phase = "backoff"
  /\ up' = [up EXCEPT !.phase = "put", !.attempt = @ + 1]
  /\ upUnchanged

\* upload after the loop: apiClient.completeRecording(recordingId, parts, ...)
upload_complete ==
  /\ up.phase = "put" /\ ~(up.i < up.totalParts)
  /\ up' = [up EXCEPT !.phase = "complete", !.completes = @ + 1]
  /\ upUnchanged

\* the backend's answer to complete
upload_result ==
  /\ up.phase = "complete"
  /\ \/ up' = [up EXCEPT !.phase = "done"]
     \/ up' = [up EXCEPT !.phase = "failed"]
  /\ upUnchanged

\* artifacts of one part, of three parts (the last one short), and of one
\* part more than MAX_FILE_SIZE allows
UploadSizes == {PART_SIZE - 2, 2 * PART_SIZE + 2, MAX_FILE_SIZE + 1}

UploadNext ==
  \/ upload(UploadSizes)
  \/ upload_init
  \/ uploadPart_fetch
  \/ uploadPart_response
  \/ uploadPart_then
  \/ uploadPart_backoff
  \/ upload_complete
  \/ upload_result

UploadSpec == ServerInit /\ [][UploadNext]_vars

(***************************************************************************)
(* SliceSpec: the uploader with artifacts of every size from 1 to MaxBlob, *)
(* which takes in sizes below, at and above each multiple of PART_SIZE.    *)
(***************************************************************************)
MaxBlob == 12

SliceNext ==
  \/ upload(1..MaxBlob)
  \/ upload_init
  \/ uploadPart_fetch
  \/ uploadPart_response
  \/ uploadPart_then
  \/ uploadPart_backoff
  \/ upload_complete
  \/ upload_result

SliceSpec == ServerInit /\ [][SliceNext]_vars

(***************************************************************************)
(* The Compositor of the popup (utils/compositor.ts).                      *)
(***************************************************************************)
\* frames one Compositor draws during a run
MaxDraws == 12

\* requestWebcamCapture(): getUserMedia resolves, or rejects and null is returned
Compositor_requestWebcamCapture(c, granted) ==
  IF granted THEN [c EXCEPT !.webcamStream = "live"] ELSE c

\* initialize(screenStream, webcamStream): canvas, ctx and the videos
Compositor_initialize(c) == [c EXCEPT !.ready = TRUE]

\* _composite(): it returns at once unless isRunning, ctx, canvas and
\* screenVideo are set; else it draws and asks for the next frame
Compositor_composite(c) ==
  IF ~c.isRunning \/ ~c.ready
    THEN c
    ELSE [c EXCEPT !.frames = c.frames + 1,
                   !.animationId = <<c.frames + 1>>,
                   !.pending = c.pending \cup {c.frames + 1}]

StartWithoutGuard(c) ==
  Compositor_composite([c EXCEPT !.isRunning = TRUE, !.halted = FALSE])
\* start(): if (this.isRunning) return; this.isRunning = true; this._composite()
Compositor_start(c) ==
  IF c.isRunning
    THEN [c EXCEPT !.halted = FALSE]
    ELSE Compositor_composite([c EXCEPT !.isRunning = TRUE, !.halted = FALSE])

StopWithoutCancel(c) ==
  [c EXCEPT !.isRunning = FALSE, !.animationId = Null, !.halted = TRUE]
\* stop(): isRunning = false; cancelAnimationFrame(animationId); animationId = null
Compositor_stop(c) ==
  [c EXCEPT !.isRunning = FALSE,
            !.pending = IF c.animationId # Null THEN c.pending \ {c.animationId[1]}
                                                 ELSE c.pending,
            !.animationId = Null,
            !.halted = TRUE]

\* cleanup(): stop(), then canvas, ctx and the videos are set to null
Compositor_cleanup(c) ==
  [Compositor_stop(c) EXCEPT !.ready = FALSE, !.webcamStream = "null"]

\* the browser runs the frame callback id: () => this._composite()
Compositor_frame(c, id) == Compositor_composite([c EXCEPT !.pending = c.pending \ {id}])

compositorUnchanged ==
  UNCHANGED <<serverVars, recordingState, swEpoch, osVars, reqs, toSw, toUi, ui, clock,
              up, app, api>>

CompositorRequestWebcamCapture ==
  /\ \E granted \in BOOLEAN :
       compositor' = Compositor_requestWebcamCapture(compositor, granted)
  /\ compositorUnchanged

CompositorInitialize ==
  /\ compositor' = Compositor_initialize(compositor)
  /\ compositorUnchanged

CompositorStart ==
  /\ compositor.frames < MaxDraws
  /\ compositor' = Compositor_start(compositor)
  /\ compositorUnchanged

CompositorStop ==
  /\ compositor' = Compositor_stop(compositor)
  /\ compositorUnchanged

CompositorCleanup ==
  /\ compositor' = Compositor_cleanup(compositor)
  /\ compositorUnchanged

CompositorFrame ==
  /\ compositor.frames < MaxDraws
  /\ \E id \in compositor.pending :
       compositor' = Compositor_frame(compositor, id)
  /\ compositorUnchanged

\* any sequence of requestWebcamCapture, initialize, start, stop, cleanup and frame callbacks
CompositorNext ==
  \/ CompositorRequestWebcamCapture
  \/ CompositorInitialize
  \/ CompositorStart
  \/ CompositorStop
  \/ CompositorCleanup
  \/ CompositorFrame

CompositorSpec == ServerInit /\ [][CompositorNext]_vars

(***************************************************************************)
(* The popup that records by itself (entrypoints/popup/App.vue), with its  *)
(* MediaHandler, its Compositor and the uploader.                          *)
(***************************************************************************)
\* chunks one recording collects, the size of a chunk in MiB, and the frames
\* the popup's Compositor draws during a run
AppChunks == 2
AppChunkMiB == 3
AppDraws == 2

appUnchanged ==
  UNCHANGED <<serverVars, recordingState, swEpoch, osVars, reqs, toSw, toUi, ui, clock,
              api>>

\* MediaHandler.cleanup()
MediaHandler_cleanup(a) ==
  [a EXCEPT !.mediaRecorder = "null", !.recordedChunks = <<>>, !.tracks = FALSE]

\* showError(message), but for compositor.cleanup()
App_showError(a, message) ==
  [MediaHandler_cleanup(a) EXCEPT !.errorMessage = <<message>>, !.state = "error",
                                  !.timerInterval = "null"]

\* what the popup shows: the text of errorMessage (only in state 'error'), and
\* the button 'Download Video' (only in state 'complete')
ErrorShown(a) == a.state = "error" /\ a.errorMessage # Null
DownloadOffered(a) == a.state = "complete"

\* handleAuth (login or register succeeds) and skipAuth
App_handleAuth ==
  /\ app.state = "auth"
  /\ app' = [app EXCEPT !.state = "idle", !.authenticated = TRUE]
  /\ UNCHANGED <<compositor, up>>
  /\ appUnchanged

App_skipAuth ==
  /\ app.state = "auth"
  /\ app' = [app EXCEPT !.state = "idle", !.isGuest = TRUE]
  /\ UNCHANGED <<compositor, up>>
  /\ appUnchanged

\* startRecording up to the awaits after requestScreenCapture
App_startRecording ==
  /\ app.state = "idle" /\ ~app.starting
  /\ \/ /\ app' = [app EXCEPT !.state = "recording", !.tracks = TRUE, !.starting = TRUE]
        /\ UNCHANGED compositor
     \/ /\ app' = App_showError(app, "start")
        /\ compositor' = Compositor_cleanup(compositor)
  /\ UNCHANGED up
  /\ appUnchanged

\* startRecording after the awaits: the webcam, the microphone, the
\* compositor, mediaHandler.startRecording and startTimer; or one of them throws
App_startRecording_streams ==
  /\ app.starting
  /\ \/ /\ \E webcam \in BOOLEAN :
             compositor' =
               IF webcam
                 THEN Compositor_start(Compositor_initialize(
                        Compositor_requestWebcamCapture(compositor, TRUE)))
                 ELSE compositor
        /\ compositor'.frames <= AppDraws
        /\ app' = [app EXCEPT !.starting = FALSE, !.tracks = TRUE,
                              !.mediaRecorder = "recording", !.recordedChunks = <<>>,
                              !.timerInterval = "running"]
     \/ /\ app' = [App_showError(app, "start") EXCEPT !.starting = FALSE]
        /\ compositor' = Compositor_cleanup(compositor)
  /\ UNCHANGED up
  /\ appUnchanged

\* MediaHandler: ondataavailable with data
App_ondataavailable ==
  /\ app.mediaRecorder = "recording"
  /\ Len(app.recordedChunks) < AppChunks
  /\ app' = [app EXCEPT !.recordedChunks = push(app.recordedChunks)]
  /\ UNCHANGED <<compositor, up>>
  /\ appUnchanged

\* the frame callback of the popup's Compositor
App_frame ==
  /\ compositor.frames < AppDraws
  /\ \E id \in compositor.pending :
       compositor' = Compositor_frame(compositor, id)
  /\ UNCHANGED <<app, up>>
  /\ appUnchanged

\* stopRecording (the button, the end of the screen share): up to the await
\* of the 300 ms after requestData()
App_stopRecording ==
  /\ app.state = "recording" /\ app.stopping = "no"
  /\ app' = [app EXCEPT !.state = "processing", !.timerInterval = "null",
                        !.stopping = "wait"]
  /\ UNCHANGED <<compositor, up>>
  /\ appUnchanged

\* after the 300 ms, in which the chunk that requestData() asked for may have
\* come: compositor.stop(), mediaHandler.stopRecording() up to its await
App_stopRecording_recorder ==
  /\ app.stopping = "wait"
  /\ \E flushed \in BOOLEAN :
       app' = [app EXCEPT
                 !.stopping = "recorder",
                 !.recordedChunks =
                    IF flushed /\ app.mediaRecorder = "recording" /\ Len(@) < AppChunks
                      THEN push(@) ELSE @,
                 !.mediaRecorder = IF @ = "null" THEN "null" ELSE "inactive"]
  /\ compositor' = Compositor_stop(compositor)
  /\ UNCHANGED up
  /\ appUnchanged

\* uploadRecording up to the await of uploader.upload
App_uploadRecording(a) == [a EXCEPT !.state = "uploading"]

\* stopRecording after mediaHandler.stopRecording() resolved (null without a
\* recorder, else the Blob of the chunks): both cleanups, then 'no data', the
\* upload, or 'complete'
App_stopRecording_resolved ==
  /\ app.stopping = "recorder"
  /\ LET blob == IF app.mediaRecorder = "null" THEN Null
                 ELSE <<BlobSize(app.recordedChunks) * AppChunkMiB>>
         a == [MediaHandler_cleanup(app) EXCEPT !.recordingBlob = blob,
                                                !.stopping = "no"]
     IN /\ compositor' = Compositor_cleanup(compositor)
        /\ IF blob = Null \/ blob = <<0>>
             THEN /\ app' = App_showError(a, "no data")
                  /\ UNCHANGED up
             ELSE IF a.authenticated /\ ~a.isGuest
               THEN /\ up.phase = "idle"
                    /\ app' = App_uploadRecording(a)
                    /\ up' = uploadCalled(up, blob[1])
               ELSE /\ app' = [a EXCEPT !.state = "complete"]
                    /\ UNCHANGED up
  /\ appUnchanged

\* uploadRecording after uploader.upload resolved
App_uploadRecording_resolved ==
  /\ app.state = "uploading" /\ up.phase = "done"
  /\ app' = [app EXCEPT !.shareUrl = <<up.recordingId>>, !.state = "complete"]
  /\ up' = IdleUploader
  /\ UNCHANGED compositor
  /\ appUnchanged

\* uploadRecording after uploader.upload rejected: showError(...), then
\* state.value = RecordingState.COMPLETE
App_uploadRecording_rejected ==
  /\ app.state = "uploading" /\ up.phase = "failed"
  /\ app' = [App_showError(app, "upload") EXCEPT !.state = "complete"]
  /\ compositor' = Compositor_cleanup(compositor)
  /\ up' = IdleUploader
  /\ appUnchanged

\* downloadRecording: the button of state 'complete'
App_downloadRecording ==
  /\ DownloadOffered(app) /\ ~app.downloaded
  /\ app.recordingBlob # Null /\ app.recordingBlob # <<0>>
  /\ app' = [app EXCEPT !.downloaded = TRUE]
  /\ UNCHANGED <<compositor, up>>
  /\ appUnchanged

\* reset: 'New Recording' and 'Try Again'
App_reset ==
  /\ app.state \in {"complete", "error"}
  /\ app' = [app EXCEPT !.recordingBlob = Null, !.shareUrl = Null, !.state = "idle",
                        !.downloaded = FALSE]
  /\ UNCHANGED <<compositor, up>>
  /\ appUnchanged

\* the popup, signed in or as a guest, records, stops and uploads
AppNext ==
  \/ App_handleAuth
  \/ App_skipAuth
  \/ App_startRecording
  \/ App_startRecording_streams
  \/ App_ondataavailable
  \/ App_frame
  \/ App_stopRecording
  \/ App_stopRecording_recorder
  \/ App_stopRecording_resolved
  \/ upload_init
  \/ uploadPart_fetch
  \/ uploadPart_response
  \/ uploadPart_then
  \/ uploadPart_backoff
  \/ upload_complete
  \/ upload_result
  \/ App_uploadRecording_resolved
  \/ App_uploadRecording_rejected
  \/ App_downloadRecording
  \/ App_reset

AppSpec == ServerInit /\ [][AppNext]_vars

(***************************************************************************)
(* The ApiClient (utils/api-client.ts, lib/api-client.js): request and     *)
(* refreshAccessToken, one request at a time.                              *)
(***************************************************************************)
MaxTokens == 3

\* what /api/auth/login, /register and /refresh answer the k-th time
AuthTokens(k) ==
  [accessToken |-> <<"access", k>>, refreshToken |-> <<"refresh", k>>, user |-> <<"user">>]

\* what fetch resolves with: the status of the response; and what stands for
\* a fetch that rejects, which makes request throw
Statuses == {200, 401, 500}
Rejected == 0

apiUnchanged ==
  UNCHANGED <<serverVars, recordingState, swEpoch, osVars, reqs, toSw, toUi, ui, clock,
              up, app, compositor>>

\* saveTokens(accessToken, refreshToken, user)
saveTokens(a, tokens) ==
  [a EXCEPT !.accessToken = tokens.accessToken, !.refreshToken = tokens.refreshToken,
            !.user = tokens.user, !.storage = tokens]

ClearAccessTokenOnly(a) ==
  [a EXCEPT !.accessToken = Null, !.storage.accessToken = Null]
\* clearTokens()
clearTokens(a) ==
  [a EXCEPT !.accessToken = Null, !.refreshToken = Null, !.user = Null,
            !.storage = [accessToken |-> Null, refreshToken |-> Null, user |-> Null]]

\* the Authorization header: Bearer accessToken, or none
Bearer(a) == IF a.accessToken # Null THEN <<"Bearer", a.accessToken>> ELSE Null

\* login(email, password) or register: the backend answers with tokens
ApiClient_login ==
  /\ api.phase = "idle"
  /\ api.issued < MaxTokens
  /\ api' = saveTokens([api EXCEPT !.issued = @ + 1], AuthTokens(api.issued + 1))
  /\ apiUnchanged

\* request(endpoint, options) up to its first fetch
ApiClient_request ==
  /\ api.phase = "idle"
  /\ \E endpoint \in {"init", "logout"} :
       api' = [api EXCEPT !.phase = "fetch", !.endpoint = endpoint, !.fetches = 1,
                          !.authorization = <<Bearer(api)>>, !.first = Null,
                          !.returned = Null, !.refreshed = "no"]
  /\ apiUnchanged

\* the first fetch rejects (request throws), or resolves: on 401 with a
\* refresh token refreshAccessToken is called, otherwise the response is
\* returned
ApiClient_response ==
  /\ api.phase = "fetch" /\ api.fetches = 1
  /\ \/ api' = [api EXCEPT !.phase = "done", !.returned = <<Rejected>>]
     \/ \E status \in Statuses :
          IF status = 401 /\ api.refreshToken # Null
            THEN api' = [api EXCEPT !.phase = "refresh", !.first = <<status>>]
            ELSE api' = [api EXCEPT !.phase = "done", !.first = <<status>>,
                                    !.returned = <<status>>]
  /\ apiUnchanged

\* refreshAccessToken: the backend answers with new tokens, which are saved,
\* and request fetches again with the new header; or it answers not ok, or
\* fetch rejects, the tokens are cleared, and request returns the response it
\* has
ApiClient_refreshAccessToken ==
  /\ api.phase = "refresh"
  /\ \/ /\ api.issued < MaxTokens
        /\ LET saved == saveTokens([api EXCEPT !.issued = @ + 1],
                                   AuthTokens(api.issued + 1)) IN
             api' = [saved EXCEPT !.refreshed = "yes", !.phase = "fetch",
                                  !.fetches = @ + 1,
                                  !.authorization = Append(@, Bearer(saved))]
     \/ api' = [clearTokens(api) EXCEPT !.refreshed = "failed", !.phase = "done",
                                        !.returned = api.first]
  /\ apiUnchanged

\* the second fetch rejects or resolves: its response is returned
ApiClient_retried ==
  /\ api.phase = "fetch" /\ api.fetches = 2
  /\ \/ api' = [api EXCEPT !.phase = "done", !.returned = <<Rejected>>]
     \/ \E status \in Statuses :
          api' = [api EXCEPT !.phase = "done", !.returned = <<status>>]
  /\ apiUnchanged

\* the caller has the response; logout() then clears the tokens
ApiClient_return ==
  /\ api.phase = "done"
  /\ api' = IF api.endpoint = "logout"
              THEN [clearTokens(api) EXCEPT !.phase = "idle"]
              ELSE [api EXCEPT !.phase = "idle"]
  /\ apiUnchanged

ApiNext ==
  \/ ApiClient_login
  \/ ApiClient_request
  \/ ApiClient_response
  \/ ApiClient_refreshAccessToken
  \/ ApiClient_retried
  \/ ApiClient_return

ApiSpec == ServerInit /\ [][ApiNext]_vars

(***************************************************************************)
(* Claims about the uploader.                                              *)
(***************************************************************************)
\* C12: for every part PUT attempts are made until the first success or until
\* 3 attempts have failed: a response with a non-OK status, a network error
\* and a response without ETag each count as a failed attempt, after which
\* the part is tried again if fewer than 3 attempts were made and else the
\* upload fails for good with complete never called; a part whose k-th
\* attempt is its first success was requested exactly k times (k <= 3) and
\* the upload goes on with the next part.
C12_RetryUntilSuccessOrThreeFailures ==
  [][/\ up.tries <= maxRetries
     /\ up.phase = "response" =>
          /\ up.tries = up.attempt + 1
          /\ IF up.response.kind = "ok"
               THEN /\ Len(up'.parts) = Len(up.parts) + 1
                    /\ up'.phase = "put" /\ up'.i = up.i + 1 /\ up'.tries = 0
                    /\ Len(up.triesOf) < TriesKept => up'.triesOf = Append(up.triesOf, up.tries)
               ELSE /\ up'.parts = up.parts /\ up'.i = up.i
                    /\ up'.phase = IF up.tries < maxRetries THEN "backoff" ELSE "failed"
                    /\ up'.completes = 0
     /\ up.phase = "backoff" => up'.phase = "put" /\ up'.i = up.i
     /\ up.phase = "put" /\ up.i < up.totalParts =>
          up'.tries = up.tries + 1 /\ up'.request.url.partNumber = up.i + 1
     /\ up.phase = "failed" => up'.phase = "failed" /\ up'.completes = up.completes]_vars

\* part 2 of 3 failed twice and succeeded at its third attempt, and the upload
\* was successful
C12_Witness ==
  up.phase = "done" /\ up.totalParts = 3 /\ up.triesOf = <<1, 3, 1>> /\ up.completes = 1

\* C13: parts are uploaded one after the other in ascending part number: a
\* PUT request is issued only when no PUT request is in flight, it is for the
\* part that follows the parts uploaded so far, every part before it has a
\* successful PUT, and at no time are two PUT requests in flight.
C13_PartsSequential ==
  [][/\ up.inflight <= 1
     /\ up'.inflight > up.inflight =>
          /\ up.inflight = 0
          /\ up'.request.url.partNumber = Len(up.parts) + 1
          /\ up'.request.url.partNumber = up.i + 1
          /\ \A k \in 1..Len(up.parts) :
               /\ up.parts[k].partNumber = k
               /\ \E put \in up.stored : put.partNumber = k]_vars

\* the PUT request for part 3 is in flight after parts 1 and 2 were uploaded
C13_Witness ==
  /\ up.phase = "wait" /\ up.inflight = 1
  /\ up.request.url.partNumber = 3 /\ Len(up.parts) = 2

\* C14: completeRecording is called at most once per upload and only after
\* every part 1..totalParts has succeeded; its parts list is
\* [(1, t1), ..., (totalParts, t_totalParts)], ascending, without gap or
\* duplicate, where t_k is the ETag, quotes removed, that the storage returned
\* for the PUT of the bytes [(k-1) * PART_SIZE, min(k * PART_SIZE, size)) to
\* the URL that init issued for part number k.
C14_CompleteOnceWithAllParts ==
  [][/\ up.completes <= 1
     /\ up'.completes > up.completes =>
          /\ up.completes = 0
          /\ up'.parts = up.parts
          /\ Len(up.parts) = up.totalParts
          /\ Len(up.uploadUrls) = up.totalParts
          /\ \A k \in 1..up.totalParts :
               /\ up.parts[k].partNumber = k
               /\ up.uploadUrls[k].partNumber = k
               /\ up.parts[k].etag = ETagOf(up.uploadUrls[k].uploadId, k)
               /\ [partNumber |-> k,
                   body |-> [start |-> (k - 1) * PART_SIZE,
                             end |-> IF k * PART_SIZE < up.size
                                       THEN k * PART_SIZE ELSE up.size]] \in up.stored]_vars

\* completeRecording was called with the three parts of an artifact whose
\* last part is shorter than PART_SIZE
C14_Witness ==
  /\ up.phase = "complete" /\ up.completes = 1
  /\ up.totalParts = 3 /\ Len(up.parts) = 3 /\ up.size < 3 * PART_SIZE

\* C15: the upload of an artifact larger than MAX_FILE_SIZE fails before any
\* part is PUT: no PUT request is ever made for it and the storage never
\* holds a part of it.
C15_OversizeFailsFast ==
  up.size > MAX_FILE_SIZE =>
    /\ up.inflight = 0 /\ up.tries = 0 /\ up.parts = <<>> /\ up.stored = {}

(***************************************************************************)
(* Claims about completeRecording and getRecordingByShareToken.            *)
(***************************************************************************)
\* the request p inserts its row into Recording
Inserts(p) ==
  pc[p] = "c_create" /\ pc'[p] = "c_update" /\ Len(recordings') = Len(recordings) + 1
InsertedRow == recordings'[Len(recordings')]

\* C21: the Recording that a complete call creates for a part list that
\* storage accepted has a fileSize equal to the sum of the sizes of the bodies
\* of the parts that were assembled.
C21_FileSizeIsSumOfParts ==
  [][\A p \in Procs :
       Inserts(p) =>
         LET u == loc[p].session.uploadId IN
           InsertedRow.fileSize = SumOver(uploads[u].bytes, uploads[u].parts)]_vars

\* C22: when storage rejects the part list of a complete call (a part that
\* was not uploaded, a wrong order, an unknown token), the call fails with the
\* storage's error, no Recording row is created and the session keeps its
\* status.
C22_StorageRejectionPropagates ==
  [][\A p \in Procs :
       (/\ pc[p] = "c_assemble" /\ pc'[p] # "c_assemble"
        /\ uploads[loc[p].session.uploadId].state = "open"
        /\ ~StorageAccepts(uploads[loc[p].session.uploadId],
                           loc[p].session.uploadId, call[p].parts))
       => /\ pc'[p] = "done"
          /\ resp'[p] = Fails("StorageError")
          /\ dbUnchanged]_vars

\* a part list in the wrong order was refused after both parts were uploaded
C22_Witness ==
  \E p \in Procs :
    /\ pc[p] = "done" /\ call[p].op = "complete"
    /\ resp[p] = Fails("StorageError")
    /\ call[p].parts = SwappedList(call[p].recordingId)
    /\ uploads[call[p].recordingId].parts = {1, 2}
    /\ sessions[call[p].recordingId].status = "uploading"
    /\ RowsWithId(recordings, call[p].recordingId) = 0

\* C23: complete reports the first check that fails, in this order: no
\* session: NotFound; another owner: Forbidden; a status other than
\* 'uploading': not active; expiresAt in the past: expired.  So another user
\* gets Forbidden whatever the session's status and age, and the owner of a
\* session that is completed and expired gets 'not active'.
C23_ChecksInFixedOrder ==
  [][\A p \in Procs :
       Validates(p) =>
         LET session == loc[p].session IN
           IF session = None
             THEN pc'[p] = "done" /\ resp'[p] = Fails("NotFound")
           ELSE IF session.userId # call[p].userId
             THEN pc'[p] = "done" /\ resp'[p] = Fails("Forbidden")
           ELSE IF session.status # "uploading"
             THEN pc'[p] = "done" /\ resp'[p] = Fails("Inactive")
           ELSE IF session.expiresAt < now
             THEN pc'[p] = "done" /\ resp'[p] = Fails("Expired")
           ELSE pc'[p] = "c_assemble"]_vars

\* bob was refused as not authorized on a session of alice that is completed
\* and whose expiresAt has passed
C23_Witness ==
  \E p \in Procs :
    /\ pc[p] = "done" /\ call[p].op = "complete"
    /\ resp[p] = Fails("Forbidden")
    /\ loc[p].session.userId # call[p].userId
    /\ loc[p].session.status = "completed"
    /\ loc[p].session.expiresAt < now

\* C27: the expiry date that complete computes, and inserts with the
\* Recording, is null for an owner on the paid tier and the time of the
\* computation + 30 days for an owner on the free tier.
C27_ExpiryByTier ==
  [][\A p \in Procs :
       /\ (pc[p] = "c_meta" /\ pc'[p] = "c_create") =>
            loc'[p].expiresAt =
              IF subscriptionTier(call[p].userId) = "free"
                THEN now + FREE_TIER_RETENTION_DAYS * 24 * 60
                ELSE NullDate
       /\ Inserts(p) =>
            /\ InsertedRow.userId = call[p].userId
            /\ InsertedRow.expiresAt = loc[p].expiresAt
            /\ subscriptionTier(InsertedRow.userId) # "free" =>
                 InsertedRow.expiresAt = NullDate
            /\ subscriptionTier(InsertedRow.userId) = "free" =>
                 \E t \in 0..now :
                   InsertedRow.expiresAt = t + FREE_TIER_RETENTION_DAYS * 24 * 60]_vars

\* alice, on the free tier, completed her upload when the clock had advanced
\* once, and her Recording expires 30 days after that
C27_Witness ==
  \E i \in DOMAIN recordings :
    /\ recordings[i].userId = "alice"
    /\ recordings[i].id \in NewIds
    /\ recordings[i].expiresAt = ClockStep + FREE_TIER_RETENTION_DAYS * 24 * 60

(***************************************************************************)
(* Claims about getRecordingByShareToken.                                  *)
(***************************************************************************)
Getting(p) == pc[p] # "idle" /\ call[p].op = "get"
viewCountOf(rows, id) ==
  SumOver([i \in DOMAIN rows |-> IF rows[i].id = id THEN rows[i].viewCount ELSE 0],
          DOMAIN rows)

C30_OneLoopAndStopCancels ==
  /\ [](/\ Cardinality(compositor.pending) <= 1
        /\ compositor.isRunning =>
             [Compositor_start(compositor) EXCEPT !.halted = compositor.halted]
               = compositor
        /\ compositor.halted => compositor.pending = {})
  /\ [][compositor'.halted => compositor'.frames = compositor.frames]_vars

\* a second frame is pending after start(), one frame callback that drew,
\* stop() and start() again: the first loop has left nothing behind
C30_Witness ==
  /\ compositor.isRunning /\ ~compositor.halted
  /\ compositor.frames = 3
  /\ compositor.pending = {3}

(***************************************************************************)
(* Claims about the popup's upload.                                        *)
(***************************************************************************)
\* C25: when uploader.upload has failed (init, a part after its retries, or
\* complete), the popup shows the failure and still holds the artifact, which
\* can be downloaded; the artifact is dropped only by reset
C25_UploadFailureShownArtifactKept ==
  [][/\ (app.state = "uploading" /\ up.phase = "failed" /\ up' # up) =>
          /\ ErrorShown(app')
          /\ app'.recordingBlob = app.recordingBlob
          /\ app.recordingBlob # Null
     /\ (app.recordingBlob # Null /\ app'.recordingBlob = Null) =>
          (app.state \in {"complete", "error"} /\ app'.state = "idle")]_vars


(***************************************************************************)
(* Claims about the status of an UploadSession                             *)
(***************************************************************************)
\* C31: an UploadSession is created with status 'uploading'; its row is never
\* removed; its status changes only from 'uploading' to 'completed', and only
\* when storage holds the assembled object of its upload; a status that is
\* 'completed' never changes again
C31_StatusOnlyForward ==
  [][\A id \in Ids :
       /\ (sessions[id] = None /\ sessions'[id] # None) =>
             sessions'[id].status = "uploading"
       /\ sessions[id] # None =>
             /\ sessions'[id] # None
             /\ sessions'[id].status # sessions[id].status =>
                  /\ sessions[id].status = "uploading"
                  /\ sessions'[id].status = "completed"
                  /\ uploads[sessions[id].uploadId].state = "assembled"]_vars

\* a session of this run was completed after its assembly, and a later
\* complete call for it has been refused as not active
C31_Witness ==
  \E id \in NewIds, p \in Procs :
    /\ sessions[id] # None /\ sessions[id].status = "completed"
    /\ uploads[id].state = "assembled"
    /\ Completing(p) /\ call[p].recordingId = id /\ pc[p] = "done"
    /\ resp[p] = Fails("Inactive")


(***************************************************************************)
(* Claims about the parts the uploader cuts                                *)
(***************************************************************************)
\* the bytes of a range, and the ranges of the rounds 0..totalParts-1
RangeLen(range) == range.end - range.start
RangesOf(size) == [i \in 0..(totalParts(size) - 1) |-> PartRange(i, size)]

\* C32: for the artifact the uploader was given (size > 0), the ranges of its
\* totalParts rounds are non-empty, each starts where the one before ends, the
\* first starts at 0 and the last ends at size (so they are pairwise disjoint
\* and cover [0, size)), every range but the last has PART_SIZE bytes, the
\* lengths sum to size; and every body the uploader sent is the range of its
\* part number
C32_RangesTileTheBlob ==
  up.size > 0 =>
    LET n == totalParts(up.size)
        ranges == RangesOf(up.size) IN
    /\ n >= 1
    /\ ranges[0].start = 0
    /\ ranges[n - 1].end = up.size
    /\ \A i \in 0..(n - 1) :
         /\ ranges[i].start < ranges[i].end
         /\ i < n - 1 => /\ RangeLen(ranges[i]) = PART_SIZE
                         /\ ranges[i + 1].start = ranges[i].end
    /\ \A i, j \in 0..(n - 1) :
         i < j => ranges[i].end <= ranges[j].start
    /\ SumOver([i \in 0..(n - 1) |-> RangeLen(ranges[i])], 0..(n - 1)) = up.size
    /\ \A s \in up.stored : s.body = ranges[s.partNumber - 1]
    /\ up.request # None => up.request.body = ranges[up.request.url.partNumber - 1]

\* an artifact of three parts, the last one short, was uploaded whole
C32_Witness ==
  /\ up.phase = "complete"
  /\ up.size = 2 * PART_SIZE + 2
  /\ {s.partNumber : s \in up.stored} = 1..3
  /\ \E s \in up.stored : s.partNumber = 3 /\ RangeLen(s.body) = 2


(***************************************************************************)
(* Claims about the delays of uploadPartWithRetry                          *)
(***************************************************************************)
\* C33: with the attempts of a part counted as the code counts them, from 0,
\* the delay after failed attempt number a is 2^a seconds (1 s after the
\* first failure, 2 s after the second), so each delay is twice the one
\* before; after the failure of the last attempt (the third, number
\* maxRetries - 1) no delay is taken and the upload fails; a part that
\* succeeds is followed by no delay
C33_BackoffDoubles ==
  /\ [](/\ Len(up.delays) <= maxRetries - 1
        /\ \A k \in 1..Len(up.delays) :
             /\ up.delays[k] = IF k = 1 THEN 1 ELSE 2 * up.delays[k - 1]
             /\ up.delays[k] = 2 ^ (k - 1)
        /\ up.phase \in {"put", "wait", "response", "backoff"} =>
             Len(up.delays) = up.attempt + (IF up.phase = "backoff" THEN 1 ELSE 0))
  /\ [][up.phase = "response" =>
          /\ up'.phase = "backoff" =>
               /\ ~AttemptOk(up.response)
               /\ up.attempt < maxRetries - 1
               /\ up'.delays = Append(up.delays, 2 ^ up.attempt)
          /\ (~AttemptOk(up.response) /\ up.attempt = maxRetries - 1) =>
               /\ up'.phase = "failed"
               /\ up'.delays = up.delays
          /\ AttemptOk(up.response) => up'.delays = <<>>]_vars

\* the third attempt of a part failed after delays of 1 s and 2 s
C33_Witness ==
  /\ up.phase = "failed"
  /\ up.attempt = maxRetries - 1
  /\ up.delays = <<1, 2>>


(***************************************************************************)
(* Claims about the ApiClient                                              *)
(***************************************************************************)
NoTokens(a) ==
  /\ a.accessToken = Null /\ a.refreshToken = Null /\ a.user = Null
  /\ a.storage.accessToken = Null /\ a.storage.refreshToken = Null
  /\ a.storage.user = Null

\* C34: a request fetches its endpoint at most twice; a second fetch is made
\* only after the first was answered 401 and the refresh succeeded, and it
\* carries the access token that the refresh returned; when the refresh
\* failed, the tokens in memory and in storage are cleared, no second fetch is
\* made and the response returned is the first one, the 401; the response to
\* the second fetch is returned whatever its status
C34_AtMostOneResend ==
  /\ [](api.phase # "idle" =>
          /\ api.fetches \in {1, 2}
          /\ Len(api.authorization) = api.fetches
          /\ api.fetches = 2 =>
               /\ api.refreshed = "yes"
               /\ api.first = <<401>>
               /\ api.authorization[2] = <<"Bearer", AuthTokens(api.issued).accessToken>>
               /\ api.authorization[2] # api.authorization[1]
          /\ api.refreshed = "yes" => api.fetches = 2
          /\ api.refreshed = "failed" =>
               /\ api.phase = "done"
               /\ api.fetches = 1
               /\ NoTokens(api)
               /\ api.returned = <<401>>)
  /\ [][/\ (api.phase = "fetch" /\ api.fetches = 2 /\ api' # api) =>
             (api'.phase = "done" /\ api'.fetches = 2)
        /\ api'.fetches # api.fetches =>
             \/ api.phase = "idle" /\ api'.fetches = 1
             \/ api.phase = "refresh" /\ api'.fetches = 2]_vars

\* a request was sent again after a refresh, was answered 401 again, and
\* returned that response
C34_Witness ==
  /\ api.phase = "done"
  /\ api.fetches = 2
  /\ api.refreshed = "yes"
  /\ api.returned = <<401>>


(***************************************************************************)
(* Claims about the two writes of completeRecording                        *)
(***************************************************************************)
\* C36: whenever no complete call is in progress, every Recording row belongs
\* to an UploadSession whose status is 'completed'
C36_RecordingOnlyWithCompletedSession ==
  (\A p \in Procs : ~(Completing(p) /\ pc[p] # "done")) =>
    \A i \in DOMAIN recordings :
      /\ sessions[recordings[i].id] # None
      /\ sessions[recordings[i].id].status = "completed"


(***************************************************************************)
(* Claims about the popup's start and stop                                 *)
(***************************************************************************)
\* C38: whenever the popup's state is idle, error or complete, its
\* MediaRecorder is not recording and no timer interval is active
C38_QuiescentWhenNotRecording ==
  app.state \in {"idle", "error", "complete"} =>
    /\ app.mediaRecorder # "recording"
    /\ app.timerInterval # "running"


(***************************************************************************)
(* Claims about the storage's multipart uploads                            *)
(***************************************************************************)
\* C40: every multipart upload that initRecording opened in storage is
\* eventually assembled by a complete call or aborted
C40_OpenUploadsEnd ==
  \A id \in NewIds :
    (uploads[id].state = "open") ~> (uploads[id].state \in {"assembled", "aborted"})

=============================================================================
